---- MODULE Spec2Model ----
(***************************************************************************)
(* Model of the fixture-ingest core of Article-Downloader:                 *)
(*   core/sanitizer.ts (value classifier, structure ledger, placeholder    *)
(*   store, sanitizer, ledger differ, secret scanner) and core/ingest.ts   *)
(*   (runIngest), both held in src/unnamed/part_005.                       *)
(*                                                                         *)
(* Strings are sequences of one-character strings, so that the regular     *)
(* expressions of the source are matched character by character by a small *)
(* backtracking matcher with JavaScript's priority order (greedy           *)
(* quantifiers, leftmost alternative first).                               *)
(***************************************************************************)
EXTENDS Integers, Sequences, FiniteSets, TLC

VARIABLES
    pc,         \* runIngest: position of the current invocation
    input,      \* runIngest: the IngestInput of the current invocation
    html,       \* runIngest: the document read from input.htmlPath
    san,        \* runIngest: the SanitizationResult
    diff,       \* runIngest: the LedgerDiffResult
    err,        \* runIngest: the error the invocation threw
    fs,         \* the tracked destination: path -> file
    rawArchive, \* the copies written under .local/raw-imports
    wrote,      \* history: the paths the current invocation has written to
    passed,     \* history: the checks the current invocation has passed
    before,     \* history: the tracked destination as the current invocation found it
    caught,     \* history: what the catch clause around sanitizeHtmlForFixture caught
    ret,        \* runIngest: the IngestResult the invocation returned
    parked,     \* concurrent invocations: the invocation that is not at its step
    run,        \* sanitizer runs: the run made last, with its input
    kept,       \* sanitizer runs: per input, the output of the first run made on it
    pstore,     \* placeholder store under test
    calls,      \* placeholder store under test: the calls made and what they returned
    cval,       \* classifier: the string under test
    cres,       \* classifier: the class classifyValue returned
    ledgers,    \* ledger differ: the raw and the sanitized ledger under test
    ldiff,      \* ledger differ: what diffStructureLedger returned for them
    scanText,   \* secret scanner: the content under test
    scanHits,   \* secret scanner: what findForbiddenSecretPatterns returned for it
    capture     \* runCaptureFixture: the invocation around runIngest

ingestVars == <<pc, input, html, san, diff, err, fs, rawArchive, wrote, passed, before, caught,
               ret>>
sanVars == <<run, kept>>
storeVars == <<pstore, calls>>
classifyVars == <<cval, cres>>
differVars == <<ledgers, ldiff>>
scanVars == <<scanText, scanHits>>
captureVars == <<capture>>
vars == <<ingestVars, parked, sanVars, storeVars, classifyVars, differVars, scanVars,
          captureVars>>

----------------------------------------------------------------------------
(* Characters and strings *)

Chars(s) == [i \in 1..Len(s) |-> SubSeq(s, i, i)]
Range(f) == {f[x] : x \in DOMAIN f}

LowerSeq == Chars("abcdefghijklmnopqrstuvwxyz")
UpperSeq == Chars("ABCDEFGHIJKLMNOPQRSTUVWXYZ")
Lower == Range(LowerSeq)
Upper == Range(UpperSeq)
Digit == Range(Chars("0123456789"))
Alpha == Lower \cup Upper
AlNum == Alpha \cup Digit
\* \w and \s of a JavaScript regular expression
WordChar == AlNum \cup {"_"}
Space == {" ", "\t", "\n", "\r"}
\* [A-Za-z0-9._-]
TokenChar == AlNum \cup {".", "_", "-"}

ToLower(c) ==
    IF c \in Upper THEN LowerSeq[CHOOSE i \in 1..26 : UpperSeq[i] = c] ELSE c
LowerStr(s) == [i \in 1..Len(s) |-> ToLower(s[i])]

\* the one element of a singleton set.  The({e(x) : x \in {v}}) is "let x be the value
\* of v in e(x)" with v worked out once, before e is entered
The(S) == CHOOSE v \in S : TRUE
Min(S) == CHOOSE x \in S : \A y \in S : x <= y
Max(S) == CHOOSE x \in S : \A y \in S : y <= x

RECURSIVE ConcatRange(_, _, _)
\* the strings ss[lo..hi] joined, by halves
ConcatRange(ss, lo, hi) ==
    IF lo > hi THEN <<>>
    ELSE IF lo = hi THEN ss[lo]
    ELSE LET mid == (lo + hi) \div 2
         IN  ConcatRange(ss, lo, mid) \o ConcatRange(ss, mid + 1, hi)
Concat(ss) == ConcatRange(ss, 1, Len(ss))

\* String.prototype.trim
TrimTo(s, keep) == IF keep = {} THEN <<>> ELSE SubSeq(s, Min(keep), Max(keep))
Trim(s) == TrimTo(s, {i \in 1..Len(s) : s[i] \notin Space})

\* true when `lit` occurs in s at position i
At(s, i, lit) == i + Len(lit) - 1 <= Len(s) /\ SubSeq(s, i, i + Len(lit) - 1) = lit
StartsWith(s, lit) == At(s, 1, lit)

\* String(n) for n >= 0
RECURSIVE DecStr(_)
DecStr(n) ==
    IF n < 10 THEN <<Chars("0123456789")[n + 1]>>
    ELSE DecStr(n \div 10) \o <<Chars("0123456789")[(n % 10) + 1]>>
\* String.prototype.padStart(w, "0")
RECURSIVE PadStart(_, _)
PadStart(s, w) == IF Len(s) >= w THEN s ELSE PadStart(<<"0">> \o s, w)

----------------------------------------------------------------------------
(* Regular expressions.  A pattern is a record:                            *)
(*   [k |-> "set", cs, neg, min, max]  a greedy run {min,max} of one class *)
(*                                     (max = -1: unbounded)               *)
(*   [k |-> "lit", str, ci]            a literal, ci: case-insensitive     *)
(*   [k |-> "wb"], "bol", "eol"        \b, ^, $                            *)
(*   [k |-> "seq", parts]              concatenation                       *)
(*   [k |-> "alt", alts]               a|b                                 *)
(*   [k |-> "rep", body, min, max]     a greedy group repetition           *)
(* Ends(re, s, i) is the sequence of end positions of the matches of re    *)
(* that start at i, in the order JavaScript's backtracking tries them, so  *)
(* its head is the match the engine reports.                               *)

Set(cs, min, max) == [k |-> "set", cs |-> cs, neg |-> FALSE, min |-> min, max |-> max]
NotSet(cs, min, max) == [k |-> "set", cs |-> cs, neg |-> TRUE, min |-> min, max |-> max]
Lit(str) == [k |-> "lit", str |-> Chars(str), ci |-> FALSE]
LitI(str) == [k |-> "lit", str |-> Chars(str), ci |-> TRUE]
WB == [k |-> "wb"]
BOL == [k |-> "bol"]
EOL == [k |-> "eol"]
Cat(parts) == [k |-> "seq", parts |-> parts]
Alt(alts) == [k |-> "alt", alts |-> alts]
Rep(body, min, max) == [k |-> "rep", body |-> body, min |-> min, max |-> max]

InClass(re, c) == IF re.neg THEN c \notin re.cs ELSE c \in re.cs

\* the length of the longest run of the class at i, at most re.max long
RunCap(re, room) == IF re.max >= 0 /\ re.max < room THEN re.max ELSE room
RunStop(cap, stops) == IF stops = {} THEN cap ELSE Min(stops) - 1
RunUpTo(re, s, i, cap) == RunStop(cap, {n \in 1..cap : ~InClass(re, s[i + n - 1])})
RunLen(re, s, i) == RunUpTo(re, s, i, RunCap(re, Len(s) - i + 1))

IsWordAt(s, i) == i >= 1 /\ i <= Len(s) /\ s[i] \in WordChar
WordBoundary(s, i) == IsWordAt(s, i - 1) # IsWordAt(s, i)

RECURSIVE Ends(_, _, _)
RECURSIVE SeqEnds(_, _, _, _)
RECURSIVE RepEnds(_, _, _, _)

SetEnds(re, i, n) ==
    IF n < re.min THEN <<>> ELSE [j \in 1..(n - re.min + 1) |-> i + n - j + 1]
LitIs(re, got) == IF re.ci THEN LowerStr(got) = LowerStr(re.str) ELSE got = re.str
LitEnds(re, s, i, n) ==
    IF i + n - 1 <= Len(s) /\ LitIs(re, SubSeq(s, i, i + n - 1)) THEN <<i + n>> ELSE <<>>

Ends(re, s, i) ==
    CASE re.k = "set" -> SetEnds(re, i, RunLen(re, s, i))
      [] re.k = "lit" -> LitEnds(re, s, i, Len(re.str))
      [] re.k = "wb" -> IF WordBoundary(s, i) THEN <<i>> ELSE <<>>
      [] re.k = "bol" -> IF i = 1 THEN <<i>> ELSE <<>>
      [] re.k = "eol" -> IF i = Len(s) + 1 THEN <<i>> ELSE <<>>
      [] re.k = "seq" -> SeqEnds(re.parts, 1, s, i)
      [] re.k = "alt" -> Concat([j \in 1..Len(re.alts) |-> Ends(re.alts[j], s, i)])
      [] re.k = "rep" -> RepEnds(re, 0, s, i)

\* the ends of parts[k..] from i: each end of parts[k], in order, continued by the rest
SeqEnds(parts, k, s, i) ==
    IF k > Len(parts) THEN <<i>>
    ELSE LET es == Ends(parts[k], s, i)
         IN  Concat([j \in 1..Len(es) |-> SeqEnds(parts, k + 1, s, es[j])])

\* n iterations done, standing at i: first try one more iteration, then stop here
RepEnds(re, n, s, i) ==
    LET es == SelectSeq(Ends(re.body, s, i), LAMBDA e : e > i)
        more == IF re.max >= 0 /\ n >= re.max THEN <<>>
                ELSE Concat([j \in 1..Len(es) |-> RepEnds(re, n + 1, s, es[j])])
    IN  more \o (IF n >= re.min THEN <<i>> ELSE <<>>)

Anchored(re) == re.k = "bol" \/ (re.k = "seq" /\ re.parts # <<>> /\ re.parts[1].k = "bol")

\* hits: the <<start, ends>> of the positions where the pattern matches
FirstMatch(hits) ==
    IF hits = {} THEN <<>>
    ELSE The({<<h[1], Head(h[2])>> : h \in {g \in hits : \A o \in hits : g[1] <= o[1]}})
\* the leftmost match at or after `from`: <<start, end>>, or <<>> when there is none
Find(re, s, from) ==
    FirstMatch({m \in {<<i, Ends(re, s, i)>> :
                          i \in from..(IF Anchored(re) THEN 1 ELSE Len(s) + 1)} : m[2] # <<>>})

\* RegExp.prototype.test (no g flag: always from the start)
Test(re, s) == Find(re, s, 1) # <<>>

----------------------------------------------------------------------------
(* Value Classifier *)

ValueClass == {"empty", "plain_text", "url", "long_numeric_id", "token_like",
               "timestamp_like", "email_like", "path_like"}

\* /^[A-Za-z]:\\/
RE_DrivePath == Cat(<<BOL, Set(Alpha, 1, 1), Lit(":\\")>>)
\* /^\//
RE_LeadingSlash == Cat(<<BOL, Lit("/")>>)
\* /^https?:\/\//i
RE_Http == Cat(<<BOL, LitI("http"), Set({"s", "S"}, 0, 1), Lit("://")>>)
\* /^\/\//
RE_ProtocolRelative == Cat(<<BOL, Lit("//")>>)
\* /^[0-9]{9,}$/
RE_LongNumeric == Cat(<<BOL, Set(Digit, 9, -1), EOL>>)
\* [0-9:.+-Z]: the digits, ':' and '.', and the range '+' (0x2B) to 'Z' (0x5A)
TimestampTail == Digit \cup Upper \cup {":", ".", "+", ",", "-", "/", ";", "<", "=", ">", "?", "@"}
\* /^[0-9]{4}-[0-9]{2}-[0-9]{2}(?:[T\s][0-9:.+-Z]+)?$/
RE_Timestamp ==
    Cat(<<BOL, Set(Digit, 4, 4), Lit("-"), Set(Digit, 2, 2), Lit("-"), Set(Digit, 2, 2),
          Rep(Cat(<<Set({"T"} \cup Space, 1, 1), Set(TimestampTail, 1, -1)>>), 0, 1),
          EOL>>)
\* /^[^@\s]+@[^@\s]+\.[^@\s]+$/
RE_Email ==
    Cat(<<BOL, NotSet({"@"} \cup Space, 1, -1), Lit("@"), NotSet({"@"} \cup Space, 1, -1),
          Lit("."), NotSet({"@"} \cup Space, 1, -1), EOL>>)
\* /\b(ntn_[A-Za-z0-9._-]{8,}|[A-Za-z0-9._-]{24,})\b/
RE_TokenLike ==
    Cat(<<WB, Alt(<<Cat(<<Lit("ntn_"), Set(TokenChar, 8, -1)>>), Set(TokenChar, 24, -1)>>), WB>>)

IsPathLike(trimmed) == Test(RE_DrivePath, trimmed) \/ Test(RE_LeadingSlash, trimmed)
IsUrl(trimmed) == Test(RE_Http, trimmed) \/ Test(RE_ProtocolRelative, trimmed)
IsLongNumericId(trimmed) == Test(RE_LongNumeric, trimmed)
IsTimestampLike(trimmed) == Test(RE_Timestamp, trimmed)
IsEmailLike(trimmed) == Test(RE_Email, trimmed)
IsTokenLike(trimmed) == Test(RE_TokenLike, trimmed)

\* a plausible slip: the long-opaque-token rule tried before the shape rules
classifyValue_TokenFirst(value) ==
    LET trimmed == Trim(value)
    IN  IF trimmed = <<>> THEN "empty"
        ELSE IF IsTokenLike(trimmed) THEN "token_like"
        ELSE IF IsPathLike(trimmed) THEN "path_like"
        ELSE IF IsUrl(trimmed) THEN "url"
        ELSE IF IsLongNumericId(trimmed) THEN "long_numeric_id"
        ELSE IF IsTimestampLike(trimmed) THEN "timestamp_like"
        ELSE IF IsEmailLike(trimmed) THEN "email_like"
        ELSE "plain_text"

classifyValue(value) ==
    LET trimmed == Trim(value)
    IN  IF trimmed = <<>> THEN "empty"
        ELSE IF IsPathLike(trimmed) THEN "path_like"
        ELSE IF IsUrl(trimmed) THEN "url"
        ELSE IF IsLongNumericId(trimmed) THEN "long_numeric_id"
        ELSE IF IsTimestampLike(trimmed) THEN "timestamp_like"
        ELSE IF IsEmailLike(trimmed) THEN "email_like"
        ELSE IF IsTokenLike(trimmed) THEN "token_like"
        ELSE "plain_text"

----------------------------------------------------------------------------
(* Placeholder Store *)

Category == {"person", "content_id", "token", "cookie", "tracking"}

createPlaceholderStore ==
    [counters |-> [c \in Category |-> 0],
     \* a JavaScript Map: the entries <<key, placeholder>> in insertion order
     seen |-> <<>>]

\* Map.prototype.get: the placeholder stored under key, <<>> for undefined
SeenGet(seen, key) ==
    LET hits == SelectSeq(seen, LAMBDA e : e[1] = key)
    IN  IF hits = <<>> THEN <<>> ELSE hits[1][2]

CategoryPrefix(category) ==
    IF category = "person" THEN Chars("PERSON")
    ELSE IF category = "content_id" THEN Chars("CID")
    ELSE IF category = "token" THEN Chars("TOKEN")
    ELSE IF category = "cookie" THEN Chars("COOKIE")
    ELSE Chars("TRACK")

\* a plausible slip: the memo keyed by the raw value alone, without the category
PlaceholderKey_NoCategory(category, raw) == raw

\* `${category}::${raw}`
PlaceholderKey(category, raw) == Chars(category) \o Chars("::") \o raw

\* `${prefix}_${String(count).padStart(3, "0")}`
Numbered(category, count) ==
    CategoryPrefix(category) \o Chars("_") \o PadStart(DecStr(count), 3)
\* store.counters.set(category, count); store.seen.set(key, placeholder)
Remember(category, store, key, placeholder) ==
    [placeholder |-> placeholder,
     store |-> [counters |-> [store.counters EXCEPT ![category] = @ + 1],
                seen |-> Append(store.seen, <<key, placeholder>>)]]
Recall(category, store, key, existing) ==
    IF existing # <<>> THEN [placeholder |-> existing, store |-> store]
    ELSE Remember(category, store, key, Numbered(category, store.counters[category] + 1))
\* returns the placeholder and the store as the call leaves it
nextPlaceholder(category, store, raw) ==
    The({Recall(category, store, key, SeenGet(store.seen, key)) :
            key \in {PlaceholderKey(category, raw)}})

----------------------------------------------------------------------------
(* Scalar redaction pipeline.  The functions of the source mutate the store *)
(* they are handed; here each takes and returns a context                   *)
(*   cx = [store |-> the PlaceholderStore,                                  *)
(*         log   |-> history: the replacements made so far, each            *)
(*                   [category, raw (the text taken out of the document),   *)
(*                    placeholder]]                                         *)
(* and returns [str |-> the rewritten string, cx |-> the context after].    *)

NewContext == [store |-> createPlaceholderStore, log |-> {}]

\* one nextPlaceholder call made for `removed`, the text taken out of the document
Logged(category, cx, removed, r) ==
    [placeholder |-> r.placeholder,
     cx |-> [store |-> r.store,
             log |-> cx.log \cup {[category |-> category, raw |-> removed,
                                   placeholder |-> r.placeholder]}]]
Allocate(category, cx, raw, removed) ==
    Logged(category, cx, removed, nextPlaceholder(category, cx.store, raw))

\* /^(?:https?:)?\/\//i
RE_UrlStart == Cat(<<BOL, Rep(Cat(<<LitI("http"), Set({"s", "S"}, 0, 1), Lit(":")>>), 0, 1), Lit("//")>>)

PersonStoplist == {Chars("Zhihu"), Chars("HTML"), Chars("URL"), Chars("POST"), Chars("GET")}

\* the raw value sanitizeUrlLike hands to nextPlaceholder for a /people/<handle> segment
PeopleRaw(handle) == Chars("people")

\* the replacement callbacks of String.prototype.replace, by the function that owns
\* them.  A callback either hands the match back as it is, or makes one
\* nextPlaceholder call and returns a lead followed by the placeholder.
CallbackKeeps(kind, m) ==
    \/ kind.f = "opaque" /\ Test(RE_UrlStart, m)
    \/ kind.f = "personish" /\ m \in PersonStoplist
CallbackCategory(kind) ==
    CASE kind.f \in {"ntn", "bearer", "opaque"} -> "token"
      [] kind.f = "z_c0" -> "cookie"
      [] kind.f \in {"route", "cid"} -> "content_id"
      [] kind.f \in {"people", "personish"} -> "person"
\* the part of the match the placeholder stands for: p2 of the route callbacks, the
\* handle behind /people/, the whole match everywhere else
CallbackTaken(kind, m) ==
    IF kind.f \in {"route", "people"} THEN SubSeq(m, Len(kind.p1) + 1, Len(m)) ELSE m
CallbackRaw(kind, m) ==
    IF kind.f = "people" THEN PeopleRaw(CallbackTaken(kind, m)) ELSE CallbackTaken(kind, m)
CallbackLead(kind, m) ==
    CASE kind.f = "bearer" -> Chars("Bearer ")
      [] kind.f = "z_c0" -> Chars("z_c0=")
      [] kind.f \in {"route", "people"} -> SubSeq(m, 1, Len(kind.p1))
      [] OTHER -> <<>>
Replaced(lead, a) == [str |-> lead \o a.placeholder, cx |-> a.cx]
Replacement(kind, m, cx) ==
    IF CallbackKeeps(kind, m) THEN [str |-> m, cx |-> cx]
    ELSE Replaced(CallbackLead(kind, m),
                  Allocate(CallbackCategory(kind), cx, CallbackRaw(kind, m), CallbackTaken(kind, m)))

\* String.prototype.replace(re /g, callback): the matches are found left to right in
\* the original string, and the callbacks run in that order
RECURSIVE ReplaceFrom(_, _, _, _, _, _)
ReplaceMatch(re, kind, s, from, out, cx, m) ==
    IF m = <<>> THEN [str |-> out \o SubSeq(s, from, Len(s)), cx |-> cx]
    ELSE The({ReplaceFrom(re, kind, s, m[2], out \o SubSeq(s, from, m[1] - 1) \o r.str, r.cx) :
                 r \in {Replacement(kind, SubSeq(s, m[1], m[2] - 1), cx)}})
ReplaceFrom(re, kind, s, from, out, cx) ==
    The({ReplaceMatch(re, kind, s, from, out, cx, m) : m \in {Find(re, s, from)}})
ReplaceAll(re, kind, s, cx) == ReplaceFrom(re, kind, s, 1, <<>>, cx)

RECURSIVE ReplaceEach(_, _, _)
\* input.replace(re1, f1).replace(re2, f2)...: steps = <<<<re1, kind1>>, ...>>,
\* a = [str, cx] as the steps before k left them
ReplaceEach(steps, k, a) ==
    IF k > Len(steps) THEN a
    ELSE The({ReplaceEach(steps, k + 1, b) :
                 b \in {ReplaceAll(steps[k][1], steps[k][2], a.str, a.cx)}})

\* /(\/question\/)(\d{9,})/g and its three siblings
RE_Route(p1) == Cat(<<Lit(p1), Set(Digit, 9, -1)>>)
Route(p1) == [f |-> "route", p1 |-> Chars(p1)]

sanitizeZhihuRoutes(inp, cx) ==
    ReplaceEach(<< <<RE_Route("/question/"), Route("/question/")>>,
                   <<RE_Route("/answer/"), Route("/answer/")>>,
                   <<RE_Route("/pin/"), Route("/pin/")>>,
                   <<RE_Route("/p/"), Route("/p/")>> >>,
                1, [str |-> inp, cx |-> cx])

\* /(\/people\/)\b[a-z0-9_-]{3,}\b/gi
RE_People == Cat(<<LitI("/people/"), WB, Set(AlNum \cup {"_", "-"}, 3, -1), WB>>)

----------------------------------------------------------------------------
(* new URL(...), URLSearchParams and URL.prototype.toString, as far as       *)
(* sanitizeUrlLike uses them on a string that starts with http:// or         *)
(* https://.  Modelled: scheme and host are lower-cased, an empty path       *)
(* becomes "/", a host that is empty or holds a character outside            *)
(* [A-Za-z0-9._-] (with an optional :port) makes the constructor throw, the  *)
(* query is split on & and =, and a query touched by searchParams.set is     *)
(* written back in application/x-www-form-urlencoded form.  Not modelled:    *)
(* credentials, percent-decoding, dot segments, IDNA.                        *)

\* the first position >= i of s holding a character of cs, Len(s) + 1 when none
IndexOfAny(s, cs, i) ==
    LET hits == {j \in i..Len(s) : s[j] \in cs}
    IN  IF hits = {} THEN Len(s) + 1 ELSE CHOOSE j \in hits : \A l \in hits : j <= l

RECURSIVE Split(_, _)
\* String.prototype.split on one separator character
Split(s, sep) ==
    LET j == IndexOfAny(s, {sep}, 1)
    IN  IF j > Len(s) THEN <<s>>
        ELSE <<SubSeq(s, 1, j - 1)>> \o Split(SubSeq(s, j + 1, Len(s)), sep)

PlusToSpace(s) == [i \in 1..Len(s) |-> IF s[i] = "+" THEN " " ELSE s[i]]

\* the application/x-www-form-urlencoded parser
ParseQuery(q) ==
    LET pieces == SelectSeq(Split(q, "&"), LAMBDA x : x # <<>>)
        pair(x) == LET j == IndexOfAny(x, {"="}, 1)
                   IN  <<PlusToSpace(SubSeq(x, 1, j - 1)), PlusToSpace(SubSeq(x, j + 1, Len(x)))>>
    IN  [i \in 1..Len(pieces) |-> pair(pieces[i])]

FormEncodeChar(c) ==
    IF c \in AlNum \cup {"*", "-", ".", "_"} THEN <<c>>
    ELSE IF c = " " THEN <<"+">>
    ELSE IF c = ":" THEN Chars("%3A")
    ELSE IF c = "/" THEN Chars("%2F")
    ELSE IF c = "=" THEN Chars("%3D")
    ELSE IF c = "@" THEN Chars("%40")
    ELSE IF c = "&" THEN Chars("%26")
    ELSE IF c = "?" THEN Chars("%3F")
    ELSE IF c = "," THEN Chars("%2C")
    ELSE <<c>>
FormEncode(s) == Concat([i \in 1..Len(s) |-> FormEncodeChar(s[i])])

RECURSIVE JoinPairs(_)
\* the application/x-www-form-urlencoded serializer
JoinPairs(ps) ==
    IF ps = <<>> THEN <<>>
    ELSE FormEncode(ps[1][1]) \o <<"=">> \o FormEncode(ps[1][2])
         \o (IF Len(ps) > 1 THEN <<"&">> \o JoinPairs(Tail(ps)) ELSE <<>>)

UrlEncodeChar(c) ==
    IF c = " " THEN Chars("%20") ELSE IF c = "\"" THEN Chars("%22")
    ELSE IF c = "<" THEN Chars("%3C") ELSE IF c = ">" THEN Chars("%3E") ELSE <<c>>
UrlEncode(s) == Concat([i \in 1..Len(s) |-> UrlEncodeChar(s[i])])

\* s cut in two before its first character of cs: <<what is before, the rest>>
Cut(s, cs) ==
    The({<<SubSeq(s, 1, j - 1), SubSeq(s, j, Len(s))>> : j \in {IndexOfAny(s, cs, 1)}})
\* all but the first character
Rest(s) == SubSeq(s, 2, Len(s))

\* the stages of the parser.  [ok |-> FALSE] when the constructor throws
UrlOfParts(scheme, host, port, pq, hash) ==
    IF host = <<>> \/ ~(Range(host) \subseteq TokenChar) \/ ~(Range(port) \subseteq Digit)
    THEN [ok |-> FALSE]
    ELSE [ok |-> TRUE,
          origin |-> scheme \o Chars("://") \o host
                     \o (IF port = <<>> THEN <<>> ELSE <<":">> \o port),
          path |-> IF pq[1] = <<>> THEN <<"/">> ELSE UrlEncode(pq[1]),
          query |-> Rest(pq[2]),
          hash |-> hash]
\* hp = <<host, :port>>, th = <<path?query, #hash>>
UrlOfHost(scheme, hp, th) ==
    UrlOfParts(scheme, LowerStr(hp[1]), Rest(hp[2]), Cut(th[1], {"?"}), th[2])
\* at = <<authority, the rest>>
UrlOfAuthority(scheme, at) == UrlOfHost(scheme, Cut(at[1], {":"}), Cut(at[2], {"#"}))
\* sc = <<scheme, the rest from the colon on>>
UrlOfScheme(sc) ==
    IF ~(LowerStr(sc[1]) \in {Chars("http"), Chars("https")} /\ At(sc[2], 1, Chars("://")))
    THEN [ok |-> FALSE]
    ELSE UrlOfAuthority(LowerStr(sc[1]),
                        Cut(SubSeq(sc[2], 4, Len(sc[2])), {"/", "?", "#", "\\"}))
ParseUrl(str) == UrlOfScheme(Cut(Trim(str), {":"}))

\* new URL(sourceUrl) of assertValidSourceUrl and sanitizeHtmlForFixture: a source URL
\* is any absolute URL; of the other schemes only their presence is modelled
RE_Scheme == Cat(<<BOL, Set(Alpha, 1, 1), Set(AlNum \cup {"+", "-", "."}, 0, -1), Lit(":")>>)
IsValidUrl(str) ==
    IF Test(RE_Http, Trim(str)) THEN ParseUrl(str).ok ELSE Test(RE_Scheme, Trim(str))

\* URLSearchParams.get: the first value under key, "" (through ?? "") when there is none
ParamGet(ps, key) ==
    LET hits == SelectSeq(ps, LAMBDA e : e[1] = key)
    IN  IF hits = <<>> THEN <<>> ELSE hits[1][2]

\* URLSearchParams.set: the first pair under key takes the value, the others go
RECURSIVE ParamSetFrom(_, _, _, _)
ParamSetFrom(ps, key, value, done) ==
    IF ps = <<>> THEN (IF done THEN <<>> ELSE <<<<key, value>>>>)
    ELSE IF ps[1][1] = key
         THEN (IF done THEN <<>> ELSE <<<<key, value>>>>) \o ParamSetFrom(Tail(ps), key, value, TRUE)
         ELSE <<ps[1]>> \o ParamSetFrom(Tail(ps), key, value, done)
ParamSet(ps, key, value) == ParamSetFrom(ps, key, value, FALSE)

TRACKING_QUERY_KEYS ==
    {Chars("utm_source"), Chars("utm_medium"), Chars("utm_campaign"), Chars("utm_content"),
     Chars("utm_term"), Chars("spm"), Chars("xsec_source"), Chars("xsec_token"),
     Chars("from"), Chars("_t")}

\* /\d{9,}/ and /[A-Za-z0-9._-]{24,}/
RE_Digits9 == Set(Digit, 9, -1)
RE_Opaque24 == Set(TokenChar, 24, -1)

\* the loop over [...url.searchParams.keys()]: u = [ps, touched, cx]
RECURSIVE ScrubParams(_, _, _)
ScrubSet(u, key, a) ==
    [ps |-> ParamSet(u.ps, key, a.placeholder), touched |-> TRUE, cx |-> a.cx]
ScrubParam(u, key, value) ==
    IF LowerStr(key) \in TRACKING_QUERY_KEYS
       \/ Test(RE_Digits9, value) \/ Test(RE_Opaque24, value)
    THEN ScrubSet(u, key, Allocate("tracking", u.cx, key \o <<":">> \o value, value))
    ELSE u
ScrubParams(keys, k, u) ==
    IF k > Len(keys) THEN u
    ELSE The({ScrubParams(keys, k + 1, v) :
                 v \in {ScrubParam(u, keys[k], ParamGet(u.ps, keys[k]))}})

\* the part of sanitizeUrlLike behind the test for http(s)://
ScrubbedUrl(url, u, query) ==
    [str |-> url.origin \o url.path
             \o (IF query = <<>> THEN <<>> ELSE <<"?">> \o query) \o url.hash,
     cx |-> u.cx]
ScrubQuery(url, u) ==
    ScrubbedUrl(url, u, IF u.touched THEN JoinPairs(u.ps) ELSE UrlEncode(url.query))
ScrubParsed(routeSanitized, url, ps) ==
    ScrubQuery(url, ScrubParams([i \in 1..Len(ps) |-> ps[i][1]], 1,
                                [ps |-> ps, touched |-> FALSE, cx |-> routeSanitized.cx]))
ScrubUrl(routeSanitized) ==
    The({IF ~url.ok THEN routeSanitized
         ELSE ScrubParsed(routeSanitized, url, ParseQuery(url.query)) :
            url \in {ParseUrl(routeSanitized.str)}})

sanitizeUrlLike(inp, cx) ==
    The({IF ~Test(RE_Http, routeSanitized.str) THEN routeSanitized ELSE ScrubUrl(routeSanitized) :
            routeSanitized \in
                {ReplaceEach(<< <<RE_People, [f |-> "people", p1 |-> Chars("/people/")]>> >>, 1,
                             sanitizeZhihuRoutes(inp, cx))}})

\* /\bntn_[A-Za-z0-9._-]{8,}\b/g
RE_NtnToken == Cat(<<WB, Lit("ntn_"), Set(TokenChar, 8, -1), WB>>)
\* /\bBearer\s+[A-Za-z0-9._-]{16,}\b/gi
RE_Bearer == Cat(<<WB, LitI("Bearer"), Set(Space, 1, -1), Set(TokenChar, 16, -1), WB>>)
\* /\bz_c0\s*[=:]\s*[^;\s"]+/gi
RE_ZC0 == Cat(<<WB, LitI("z_c0"), Set(Space, 0, -1), Set({"=", ":"}, 1, 1), Set(Space, 0, -1),
                NotSet({";", "\""} \cup Space, 1, -1)>>)
\* /\b[A-Za-z0-9._-]{24,}\b/g
RE_OpaqueRun == Cat(<<WB, Set(TokenChar, 24, -1), WB>>)

sanitizeTokens(inp, cx) ==
    ReplaceEach(<< <<RE_NtnToken, [f |-> "ntn"]>>,
                   <<RE_Bearer, [f |-> "bearer"]>>,
                   <<RE_ZC0, [f |-> "z_c0"]>>,
                   <<RE_OpaqueRun, [f |-> "opaque"]>> >>,
                1, [str |-> inp, cx |-> cx])

\* /\b([A-Z][a-z]+(?:\s+[A-Z][a-z]+){0,3})\b/g
RE_PersonName ==
    Cat(<<WB, Set(Upper, 1, 1), Set(Lower, 1, -1),
          Rep(Cat(<<Set(Space, 1, -1), Set(Upper, 1, 1), Set(Lower, 1, -1)>>), 0, 3), WB>>)

sanitizePersonish(inp, cx) == ReplaceAll(RE_PersonName, [f |-> "personish"], inp, cx)

\* /\b(name|author|user)\b/i
RE_PersonWord == Cat(<<WB, Alt(<<LitI("name"), LitI("author"), LitI("user")>>), WB>>)
\* /\b\d{9,}\b/g
RE_BareDigits == Cat(<<WB, Set(Digit, 9, -1), WB>>)

\* the part of sanitizeScalar behind sanitizeUrlLike; u = [str, cx]
ScalarTail(u, context) ==
    LET whole == Allocate("content_id", u.cx, Trim(u.str), Trim(u.str))
    IN  IF context = "attr" /\ Test(RE_LongNumeric, Trim(u.str))
        THEN [str |-> whole.placeholder, cx |-> whole.cx]
        ELSE The({ReplaceAll(RE_BareDigits, [f |-> "cid"], p.str, p.cx) :
                     p \in {IF Test(RE_PersonWord, u.str) \/ context = "text"
                            THEN sanitizePersonish(u.str, u.cx) ELSE u}})

\* context is "text" or "attr"
sanitizeScalar(inp, cx, context) ==
    The({The({ScalarTail(u, context) : u \in {sanitizeUrlLike(t.str, t.cx)}}) :
            t \in {sanitizeTokens(inp, cx)}})

----------------------------------------------------------------------------
(* Documents.  cheerio's load(html) is outside the repository: a document  *)
(* is modelled as the tree the parser hands back, the elements in document *)
(* order, each                                                             *)
(*   [tag, parent (0 for the html element), attribs (<<[key, value]>> in   *)
(*    source order), kids (<<[t |-> "text", data] or [t |-> "tag", id]>>)] *)
(* and $.html() followed by load() gives the same tree back.               *)

TextKid(data) == [t |-> "text", data |-> Chars(data)]
TagKid(id) == [t |-> "tag", id |-> id]
Attr(key, value) == [key |-> Chars(key), value |-> Chars(value)]

RECURSIVE TextOf(_, _)
RECURSIVE KidsText(_, _, _)
\* cheerio's .text(): the text of all descendants, in document order
TextOf(doc, id) == KidsText(doc, doc[id].kids, 1)
KidsText(doc, kids, k) ==
    IF k > Len(kids) THEN <<>>
    ELSE (IF kids[k].t = "text" THEN kids[k].data ELSE TextOf(doc, kids[k].id))
         \o KidsText(doc, kids, k + 1)

\* the characters in UTF-16 code unit order (Array.prototype.sort's default order)
CodeOrder ==
    Chars(" !\"#$%&'()*+,-./0123456789:;<=>?@ABCDEFGHIJKLMNOPQRSTUVWXYZ[\\]^_abcdefghijklmnopqrstuvwxyz{|}~")
\* the characters in the order of String.prototype.localeCompare's root collation:
\* punctuation, then digits, then letters with the lower case first
LocaleOrder ==
    Chars(" _-,;:!?.'\"()[]{}@*/\\&#%^+<=>|~$0123456789aAbBcCdDeEfFgGhHiIjJkKlLmMnNoOpPqQrRsStTuUvVwWxXyYzZ")
Rank(order, c) == IF c \in Range(order) THEN CHOOSE i \in 1..Len(order) : order[i] = c ELSE 0

\* a < b in the given character order
StrLess(order, a, b) ==
    LET n == IF Len(a) < Len(b) THEN Len(a) ELSE Len(b)
        diffs == {i \in 1..n : a[i] # b[i]}
    IN  IF diffs = {} THEN Len(a) < Len(b)
        ELSE Rank(order, a[Min(diffs)]) < Rank(order, b[Min(diffs)])

\* x put into the sorted sequence xs behind the elements that are not greater
InsertSorted(order, xs, x, keyOf) ==
    LET greater == {i \in 1..Len(xs) : StrLess(order, x[keyOf], xs[i][keyOf])}
        at == IF greater = {} THEN Len(xs) + 1 ELSE Min(greater)
    IN  SubSeq(xs, 1, at - 1) \o <<x>> \o SubSeq(xs, at, Len(xs))
RECURSIVE SortFrom(_, _, _, _, _)
SortFrom(order, xs, k, keyOf, acc) ==
    IF k > Len(xs) THEN acc
    ELSE The({SortFrom(order, xs, k + 1, keyOf, a) :
                 a \in {InsertSorted(order, acc, xs[k], keyOf)}})
\* a sequence of records sorted by the string field keyOf
SortBy(order, xs, keyOf) == SortFrom(order, xs, 1, keyOf, <<>>)

----------------------------------------------------------------------------
(* Node Path Indexer / Structure Ledger Builder *)

\* the element children of a node, in order
ChildTags(doc, id) ==
    LET ks == SelectSeq(doc[id].kids, LAMBDA k : k.t = "tag")
    IN  [i \in 1..Len(ks) |-> ks[i].id]

RECURSIVE getElementNodePath(_, _)
\* the segments from the element up to (not including) the html element, joined behind "/"
PathSegments(doc, id) ==
    IF id = 0 \/ doc[id].tag = "html" THEN <<>>
    ELSE LET tag == doc[id].tag
             parent == doc[id].parent
             sameTagSiblings == SelectSeq(ChildTags(doc, parent), LAMBDA n : doc[n].tag = tag)
             index == CHOOSE i \in 1..Len(sameTagSiblings) : sameTagSiblings[i] = id
         IN  Append(getElementNodePath(doc, parent),
                    Chars(tag) \o <<"[">> \o DecStr(index) \o <<"]">>)
getElementNodePath(doc, id) == PathSegments(doc, id)

RECURSIVE JoinWith(_, _)
JoinWith(ss, sep) ==
    IF ss = <<>> THEN <<>>
    ELSE IF Len(ss) = 1 THEN ss[1]
    ELSE ss[1] \o sep \o JoinWith(Tail(ss), sep)

NodePath(doc, id) == <<"/">> \o JoinWith(getElementNodePath(doc, id), <<"/">>)

Undefined == "undefined"

\* attributesPresent: the attributes sorted by key; text: $(node).text().trim()
LedgerNode(doc, id, attributesPresent, text) ==
    [nodePath |-> NodePath(doc, id),
     tagName |-> doc[id].tag,
     attributesPresent |-> [i \in 1..Len(attributesPresent) |-> attributesPresent[i].key],
     attributeValueClass |->
         [i \in 1..Len(attributesPresent) |-> classifyValue(attributesPresent[i].value)],
     textClass |-> IF text # <<>> THEN classifyValue(text) ELSE Undefined]
LedgerNodeOf(doc, id) ==
    LedgerNode(doc, id, SortBy(CodeOrder, doc[id].attribs, "key"), Trim(TextOf(doc, id)))

\* attributeValueClass[attr] of a ledger node
ClassOfAttr(node, attr) ==
    node.attributeValueClass[CHOOSE i \in 1..Len(node.attributesPresent) :
                                 node.attributesPresent[i] = attr]

analyzeStructure(doc, policyVersion) ==
    [policyVersion |-> policyVersion,
     nodes |-> SortBy(LocaleOrder, [id \in 1..Len(doc) |-> LedgerNodeOf(doc, id)], "nodePath")]

----------------------------------------------------------------------------
(* Sanitizer *)

\* /token|cookie|auth|session|secret/i
RE_SensitiveKey ==
    Alt(<<LitI("token"), LitI("cookie"), LitI("auth"), LitI("session"), LitI("secret")>>)
\* /url|href|src|content|value|data-/
RE_ValueKey == Alt(<<Lit("url"), Lit("href"), Lit("src"), Lit("content"), Lit("value"), Lit("data-")>>)
\* /name|author|user/i
RE_PersonKey == Alt(<<LitI("name"), LitI("author"), LitI("user")>>)

\* a plausible slip: every attribute value scrubbed, whatever its key
shouldSanitizeAttr_All(key) == TRUE
shouldSanitizeAttr(key) ==
    Test(RE_SensitiveKey, key) \/ Test(RE_ValueKey, key)
    \/ key = Chars("alt") \/ key = Chars("title")

\* String(attrs.itemprop ?? "")
ItempropOf(attrs) ==
    LET hits == SelectSeq(attrs, LAMBDA a : a.key = Chars("itemprop"))
    IN  IF hits = <<>> THEN <<>> ELSE hits[1].value

personishAttr(key, itemprop) ==
    Test(RE_PersonKey, key) \/ (key = Chars("content") /\ Test(RE_PersonKey, itemprop))

\* the body of the loop over Object.entries(attrs): w = [doc, cx]
SanitizeOneAttr(w, id, k) ==
    LET attrs == w.doc[id].attribs
        key == attrs[k].key
        value == attrs[k].value
        personish == personishAttr(key, ItempropOf(attrs))
    IN  IF ~shouldSanitizeAttr(key) THEN w
        ELSE The({[doc |-> [w.doc EXCEPT ![id].attribs[k].value = p.str], cx |-> p.cx] :
                     p \in {The({IF personish THEN sanitizePersonish(s.str, s.cx) ELSE s :
                                    s \in {sanitizeScalar(value, w.cx, "attr")}})}})

RECURSIVE SanitizeAttrs(_, _, _)
\* $("*").each(...): every element in document order, every attribute in source order
SanitizeAttrs(w, id, k) ==
    IF id > Len(w.doc) THEN w
    ELSE IF k > Len(w.doc[id].attribs) THEN SanitizeAttrs(w, id + 1, 1)
    ELSE The({SanitizeAttrs(v, id, k + 1) : v \in {SanitizeOneAttr(w, id, k)}})

ContainerTags == {"body", "article", "main", "div", "p", "span", "li", "h1", "h2", "h3", "h4"}

RECURSIVE SanitizeTextKids(_, _, _)
\* node.contents().each(...): the element's own text nodes, one by one
SanitizeTextKids(w, id, k) ==
    IF k > Len(w.doc[id].kids) THEN w
    ELSE LET kid == w.doc[id].kids[k]
         IN  IF kid.t = "text" /\ kid.data # <<>>
             THEN The({SanitizeTextKids([doc |-> [w.doc EXCEPT ![id].kids[k].data = s.str],
                                         cx |-> s.cx], id, k + 1) :
                          s \in {sanitizeScalar(kid.data, w.cx, "text")}})
             ELSE SanitizeTextKids(w, id, k + 1)

\* the body of the loop over the container elements
SanitizeOneContainer(w, id) ==
    LET text == TextOf(w.doc, id)
    IN  IF Trim(text) = <<>> THEN w
        ELSE The({IF sanitizedText.str # text
                  THEN SanitizeTextKids([doc |-> w.doc, cx |-> sanitizedText.cx], id, 1)
                  ELSE [doc |-> w.doc, cx |-> sanitizedText.cx] :
                     sanitizedText \in {sanitizeScalar(text, w.cx, "text")}})

RECURSIVE SanitizeContainers(_, _)
\* $("body, article, main, div, p, span, li, h1, h2, h3, h4").each(...)
SanitizeContainers(w, id) ==
    IF id > Len(w.doc) THEN w
    ELSE IF w.doc[id].tag \notin ContainerTags THEN SanitizeContainers(w, id + 1)
    ELSE The({SanitizeContainers(v, id + 1) : v \in {SanitizeOneContainer(w, id)}})

\* key.split("::")[0]
RECURSIVE KeyCategory(_, _)
KeyCategory(key, i) ==
    IF i > Len(key) \/ At(key, i, Chars("::")) THEN SubSeq(key, 1, i - 1)
    ELSE KeyCategory(key, i + 1)

\* a plausible slip: the key of the memo taken whole for the category
MapEntry_WholeKey(e) ==
    [placeholder |-> e[2],
     category |-> e[1],
     sourceType |-> IF KeyCategory(e[1], 1) = Chars("tracking") THEN Chars("query")
                    ELSE Chars("attr")]
\* one entry of store.seen as one entry of the map
MapEntry(e) ==
    LET category == KeyCategory(e[1], 1)
    IN  [placeholder |-> e[2],
         category |-> category,
         sourceType |-> IF category = Chars("tracking") THEN Chars("query") ELSE Chars("attr")]

\* a plausible slip: the entries left in the order of store.seen
PlaceholderMap_Unsorted(store) == [i \in 1..Len(store.seen) |-> MapEntry(store.seen[i])]
\* the placeholder map: one entry per entry of store.seen, sorted by placeholder
PlaceholderMap(store) ==
    SortBy(LocaleOrder, [i \in 1..Len(store.seen) |-> MapEntry(store.seen[i])], "placeholder")

\* dom-serializer: attribute values and text are entity-escaped
EscapeChar(c, inAttr) ==
    IF c = "&" THEN Chars("&amp;")
    ELSE IF inAttr /\ c = "\"" THEN Chars("&quot;")
    ELSE IF ~inAttr /\ c = "<" THEN Chars("&lt;")
    ELSE IF ~inAttr /\ c = ">" THEN Chars("&gt;")
    ELSE <<c>>
Escape(s, inAttr) == Concat([i \in 1..Len(s) |-> EscapeChar(s[i], inAttr)])

VoidTags == {"meta", "img", "br", "link", "input"}

RECURSIVE Serialize(_, _)
\* $.html(): the markup of the element id and of what it holds
Serialize(doc, id) ==
    LET n == doc[id]
        attr(a) == <<" ">> \o a.key \o Chars("=\"") \o Escape(a.value, TRUE) \o <<"\"">>
        kid(k) == IF k.t = "text" THEN Escape(k.data, FALSE) ELSE Serialize(doc, k.id)
        open == <<"<">> \o Chars(n.tag) \o Concat([i \in 1..Len(n.attribs) |-> attr(n.attribs[i])])
                \o <<">">>
    IN  IF n.tag \in VoidTags THEN open
        ELSE open \o Concat([i \in 1..Len(n.kids) |-> kid(n.kids[i])])
             \o Chars("</") \o Chars(n.tag) \o <<">">>

\* a plausible slip: the placeholder store kept at module level and shared by the runs
InitialContext_Shared(previous) == [store |-> previous.store, log |-> {}]

\* const store = createPlaceholderStore(); `previous` is the context the run before
\* left behind, which a fresh store does not look at
InitialContext(previous) == NewContext

\* new URL(sourceUrl) throws on a string that is no URL; the result carries, beside
\* the four fields of SanitizationResult, the sanitized tree and the context as history
sanitizeHtmlForFixture(doc, sourceUrl, policyVersion, previous) ==
    IF ~IsValidUrl(sourceUrl) THEN [threw |-> TRUE]
    ELSE The({[threw |-> FALSE,
               sanitizedHtml |-> Serialize(b.doc, 1),
               map |-> PlaceholderMap(b.cx.store),
               rawLedger |-> analyzeStructure(doc, policyVersion),
               sanitizedLedger |-> analyzeStructure(b.doc, policyVersion),
               tree |-> b.doc,
               cx |-> b.cx] :
                 b \in {The({SanitizeContainers(a, 1) :
                                a \in {SanitizeAttrs([doc |-> doc,
                                                      cx |-> InitialContext(previous)],
                                                     1, 1)}})}})

----------------------------------------------------------------------------
(* Ledger Differ *)

\* a plausible slip: every class change let through
isTransitionAllowed_Any(from, to) == TRUE

isTransitionAllowed(from, to) ==
    IF from = to THEN TRUE
    ELSE IF from = "long_numeric_id" /\ to = "plain_text" THEN TRUE
    ELSE IF from = "token_like" /\ to = "plain_text" THEN TRUE
    ELSE IF from = "url" /\ to = "url" THEN TRUE
    ELSE FALSE

\* new Map(nodes.map(node => [node.nodePath, node])): one entry per nodePath, at the
\* place of its first node and with the value of its last
LedgerMap(nodes) ==
    LET firstAt(i) == \A j \in 1..(i - 1) : nodes[j].nodePath # nodes[i].nodePath
        lastOf(path) == nodes[CHOOSE j \in 1..Len(nodes) :
                                /\ nodes[j].nodePath = path
                                /\ \A l \in (j + 1)..Len(nodes) : nodes[l].nodePath # path]
        firsts == SelectSeq([i \in 1..Len(nodes) |-> i], firstAt)
    IN  [i \in 1..Len(firsts) |-> lastOf(nodes[firsts[i]].nodePath)]

MapHas(m, path) == \E i \in 1..Len(m) : m[i].nodePath = path
MapGet(m, path) == m[CHOOSE i \in 1..Len(m) : m[i].nodePath = path]

AttrViolations(rawNode, sanitizedNode) ==
    LET one(attr) ==
            IF attr \notin Range(sanitizedNode.attributesPresent)
            THEN <<[kind |-> "missing attribute", nodePath |-> rawNode.nodePath, attr |-> attr]>>
            ELSE LET from == ClassOfAttr(rawNode, attr)
                     to == ClassOfAttr(sanitizedNode, attr)
                 IN  IF ~isTransitionAllowed(from, to)
                     THEN <<[kind |-> "value class change not allowed",
                             nodePath |-> rawNode.nodePath, attr |-> attr,
                             from |-> from, to |-> to]>>
                     ELSE <<>>
    IN  Concat([i \in 1..Len(rawNode.attributesPresent) |-> one(rawNode.attributesPresent[i])])

\* a plausible slip: a changed text class reported as well
NodeViolations_TextClass(rawNode, sanitizedMap) ==
    IF ~MapHas(sanitizedMap, rawNode.nodePath)
    THEN <<[kind |-> "missing node", nodePath |-> rawNode.nodePath]>>
    ELSE LET sanitizedNode == MapGet(sanitizedMap, rawNode.nodePath)
         IN  (IF rawNode.tagName # sanitizedNode.tagName
              THEN <<[kind |-> "tag mismatch", nodePath |-> rawNode.nodePath,
                      from |-> rawNode.tagName, to |-> sanitizedNode.tagName]>>
              ELSE <<>>)
             \o (IF rawNode.textClass # sanitizedNode.textClass
                 THEN <<[kind |-> "text class change", nodePath |-> rawNode.nodePath]>>
                 ELSE <<>>)
             \o AttrViolations(rawNode, sanitizedNode)

NodeViolations(rawNode, sanitizedMap) ==
    IF ~MapHas(sanitizedMap, rawNode.nodePath)
    THEN <<[kind |-> "missing node", nodePath |-> rawNode.nodePath]>>
    ELSE LET sanitizedNode == MapGet(sanitizedMap, rawNode.nodePath)
         IN  (IF rawNode.tagName # sanitizedNode.tagName
              THEN <<[kind |-> "tag mismatch", nodePath |-> rawNode.nodePath,
                      from |-> rawNode.tagName, to |-> sanitizedNode.tagName]>>
              ELSE <<>>)
             \o AttrViolations(rawNode, sanitizedNode)

diffStructureLedger(raw, sanitized) ==
    LET rawMap == LedgerMap(raw.nodes)
        sanitizedMap == LedgerMap(sanitized.nodes)
        violations == Concat([i \in 1..Len(rawMap) |-> NodeViolations(rawMap[i], sanitizedMap)])
        news == SelectSeq(sanitizedMap, LAMBDA n : ~MapHas(rawMap, n.nodePath))
        warnings == [i \in 1..Len(news) |-> [kind |-> "new node", nodePath |-> news[i].nodePath]]
    IN  [ok |-> Len(violations) = 0, violations |-> violations, warnings |-> warnings]

\* a plausible slip: warnings taken for a reason to stop
LedgerGate_Strict(d) == IF ~d.ok \/ Len(d.warnings) > 0 THEN "E_INGEST_LEDGER_DIFF" ELSE ""
\* runIngest: if (!diff.ok) throw new Error(E_INGEST_LEDGER_DIFF...); "" when it goes on
LedgerGate(d) == IF ~d.ok THEN "E_INGEST_LEDGER_DIFF" ELSE ""

----------------------------------------------------------------------------
(* Secret Pattern Scanner *)

FORBIDDEN_SECRET_PATTERNS ==
    << \* /\bBearer\s+[A-Za-z0-9._-]{16,}\b/i
       [name |-> "bearer",
        re |-> Cat(<<WB, LitI("Bearer"), Set(Space, 1, -1), Set(TokenChar, 16, -1), WB>>)],
       \* /\bntn_[A-Za-z0-9._-]{8,}\b/i
       [name |-> "ntn",
        re |-> Cat(<<WB, LitI("ntn_"), Set(TokenChar, 8, -1), WB>>)],
       \* /\bsecret[-_][A-Za-z0-9._-]{8,}\b/i
       [name |-> "secret",
        re |-> Cat(<<WB, LitI("secret"), Set({"-", "_"}, 1, 1), Set(TokenChar, 8, -1), WB>>)],
       \* /cookies\.secrets\.local\.json/i
       [name |-> "cookies file", re |-> LitI("cookies.secrets.local.json")],
       \* /notion\.secrets\.local\.json/i
       [name |-> "notion file", re |-> LitI("notion.secrets.local.json")],
       \* /"notionToken"\s*:/i
       [name |-> "notionToken",
        re |-> Cat(<<LitI("\"notionToken\""), Set(Space, 0, -1), Lit(":")>>)],
       \* /\bz_c0["'\s:=]{1,}["']?[A-Za-z0-9._-]{8,}/i
       [name |-> "z_c0",
        re |-> Cat(<<WB, LitI("z_c0"), Set({"\"", "'", ":", "="} \cup Space, 1, -1),
                     Set({"\"", "'"}, 0, 1), Set(TokenChar, 8, -1)>>)] >>

findForbiddenSecretPatterns(content) ==
    LET hits == SelectSeq(FORBIDDEN_SECRET_PATTERNS, LAMBDA p : Test(p.re, content))
    IN  [i \in 1..Len(hits) |-> hits[i].name]

\* JSON.stringify(map, null, 2)
MapJson(map) ==
    LET field(name, value, last) ==
            Chars("    \"") \o Chars(name) \o Chars("\": \"") \o value \o <<"\"">>
            \o (IF last THEN <<>> ELSE <<",">>) \o <<"\n">>
        entry(i) ==
            Chars("  {\n") \o field("placeholder", map[i].placeholder, FALSE)
            \o field("category", map[i].category, FALSE)
            \o field("sourceType", map[i].sourceType, TRUE)
            \o Chars("  }") \o (IF i < Len(map) THEN <<",">> ELSE <<>>) \o <<"\n">>
    IN  IF map = <<>> THEN Chars("[]")
        ELSE Chars("[\n") \o Concat([i \in 1..Len(map) |-> entry(i)]) \o Chars("]")

----------------------------------------------------------------------------
(* The parts of the model a specification leaves alone *)

NoIngest ==
    /\ pc = "idle" /\ input = <<>> /\ html = <<>> /\ san = <<>> /\ diff = <<>>
    /\ err = "" /\ fs = <<>> /\ rawArchive = {} /\ wrote = {} /\ passed = {}
    /\ before = <<>> /\ caught = "" /\ ret = <<>> /\ parked = <<>>
NoInvocationState ==
    html = <<>> /\ san = <<>> /\ diff = <<>> /\ err = "" /\ caught = "" /\ ret = <<>>
NoSanitizerRuns == run = <<>> /\ kept = <<>>
NoStore == pstore = <<>> /\ calls = <<>>
NoClassifier == cval = <<>> /\ cres = "none"
NoDiffer == ledgers = <<>> /\ ldiff = <<>>
NoScanner == scanText = <<>> /\ scanHits = <<>>
NoCapture == capture = <<>>
NoneParked == parked = <<>>

----------------------------------------------------------------------------
(* The value classifier on its own: SpecClassify *)

\* the strings under test: a head, a body and a tail put together
ClassifyHeads == <<"", " ", "/", "//", "http://", "HTTPS://", "C:\\", "see ">>
ClassifyBodies ==
    <<"", "a@b.co", "123456789", "12345678", "123456789012345678901234",
      "2024-01-01", "2024-01-01 10:00:00Z", "2024-01-01TA@B.CO",
      "aaaaaaaaaaaaaaaaaaaaaaaa@b.co", "ntn_abcd1234", "cdn.example.com/a.js",
      "x.co/q/123456789">>
ClassifyTails == <<"", " ", "\t">>
ClassifyInputs ==
    {Chars(ClassifyHeads[h]) \o Chars(ClassifyBodies[b]) \o Chars(ClassifyTails[e]) :
        h \in DOMAIN ClassifyHeads, b \in DOMAIN ClassifyBodies, e \in DOMAIN ClassifyTails}

InitClassify ==
    /\ cval \in ClassifyInputs
    /\ cres = "none"
    /\ NoIngest /\ NoSanitizerRuns /\ NoStore /\ NoDiffer
    /\ NoScanner /\ NoCapture

Classify ==
    /\ cres = "none"
    /\ cres' = classifyValue(cval)
    /\ UNCHANGED <<cval, ingestVars, parked, sanVars, storeVars, differVars, scanVars,
                   captureVars>>

NextClassify == Classify
SpecClassify == InitClassify /\ [][NextClassify]_vars

----------------------------------------------------------------------------
(* The secret scanner on its own: SpecScan *)

\* the contents under test: a z_c0 assignment with what stands before the name, the
\* separator, a value of a given length and what follows it
ScanBefore == <<"", "cookie ", "x">>
ScanSeparators == <<"=", ": ", "=\"", "\t">>
ScanValueLengths == {4, 7, 8, 10, 15, 16, 20}
ScanAfter == <<"", "; path=/">>
ScanValue(n) == [i \in 1..n |-> IF i % 2 = 1 THEN "a" ELSE "7"]
ScanInputs ==
    {[before |-> Chars(ScanBefore[b]), separator |-> Chars(ScanSeparators[p]),
      value |-> ScanValue(n), after |-> Chars(ScanAfter[a])] :
        b \in DOMAIN ScanBefore, p \in DOMAIN ScanSeparators, n \in ScanValueLengths,
        a \in DOMAIN ScanAfter}
ScanContent(in) == in.before \o Chars("z_c0") \o in.separator \o in.value \o in.after

InitScan ==
    /\ scanText \in ScanInputs
    /\ scanHits = <<>>
    /\ NoIngest /\ NoSanitizerRuns /\ NoStore /\ NoClassifier /\ NoDiffer /\ NoCapture

\* const hits = findForbiddenSecretPatterns(content)
Scan ==
    /\ scanHits = <<>>
    /\ scanHits' = [hits |-> findForbiddenSecretPatterns(ScanContent(scanText))]
    /\ UNCHANGED <<scanText, ingestVars, parked, sanVars, storeVars, classifyVars, differVars,
                   captureVars>>

NextScan == Scan
SpecScan == InitScan /\ [][NextScan]_vars

Scanned == scanHits # <<>>
Reported(name) == \E i \in DOMAIN scanHits.hits : scanHits.hits[i] = name

\* C22: findForbiddenSecretPatterns reports a z_c0 assignment only when the assigned value
\* has 16 or more characters
C22_ShortCookieNotReported ==
    (Scanned /\ Reported("z_c0")) => Len(scanText.value) >= 16

----------------------------------------------------------------------------
(* The placeholder store on its own: SpecStore *)

MaxCalls == 4
StoreRaws == {Chars("alice"), Chars("token::alice")}

InitStore ==
    /\ pstore = createPlaceholderStore
    /\ calls = <<>>
    /\ NoIngest /\ NoSanitizerRuns /\ NoClassifier /\ NoDiffer
    /\ NoScanner /\ NoCapture

\* one nextPlaceholder(category, store, raw) on the store the calls share
StoreCall(category, raw) ==
    /\ Len(calls) < MaxCalls
    /\ LET r == nextPlaceholder(category, pstore, raw)
       IN  /\ pstore' = r.store
           /\ calls' = Append(calls, [category |-> category, raw |-> raw,
                                      placeholder |-> r.placeholder])
    /\ UNCHANGED <<ingestVars, parked, sanVars, classifyVars, differVars, scanVars,
                   captureVars>>

NextStore == \E category \in Category, raw \in StoreRaws : StoreCall(category, raw)
SpecStore == InitStore /\ [][NextStore]_vars

----------------------------------------------------------------------------
(* The ledger differ on its own: SpecLedger.  diffStructureLedger and the   *)
(* test runIngest makes of its result, on pairs of small ledgers: a <p>     *)
(* with one attribute of any class, a link, and on the sanitized side the   *)
(* same nodes left out, renamed, stripped of the attribute or changed in    *)
(* class, and a node of its own.  The nodes stand in nodePath order, as     *)
(* analyzeStructure leaves them.                                            *)

LedgerOf(nodes) == [policyVersion |-> "v1", nodes |-> nodes]
NodeOf(path, tag, attrs, classes) ==
    [nodePath |-> Chars(path), tagName |-> tag, attributesPresent |-> attrs,
     attributeValueClass |-> classes, textClass |-> Undefined]
LinkNode == NodeOf("/body[1]/a[1]", "a", <<Chars("href")>>, <<"url">>)
ParagraphNode(tag, classes) ==
    NodeOf("/body[1]/p[1]", tag, [i \in 1..Len(classes) |-> Chars("data-t")], classes)
SpanNode == NodeOf("/body[1]/span[1]", "span", <<>>, <<>>)
RawLedgers ==
    {LedgerOf(link \o <<ParagraphNode("p", <<c>>)>>) :
        link \in {<<>>, <<LinkNode>>}, c \in ValueClass}
SanitizedLedgers ==
    {LedgerOf(link \o paragraph \o span) :
        link \in {<<>>, <<LinkNode>>},
        paragraph \in {<<>>} \cup {<<ParagraphNode(tag, classes)>> :
                                      tag \in {"p", "div"},
                                      classes \in {<<>>} \cup {<<c>> : c \in ValueClass}},
        span \in {<<>>, <<SpanNode>>}}

InitLedger ==
    /\ ledgers \in [raw : RawLedgers, sanitized : SanitizedLedgers]
    /\ ldiff = <<>>
    /\ NoIngest /\ NoSanitizerRuns /\ NoStore /\ NoClassifier
    /\ NoScanner /\ NoCapture

\* const diff = diffStructureLedger(raw, sanitized); if (!diff.ok) throw
DiffLedgers ==
    /\ ldiff = <<>>
    /\ \E d \in {diffStructureLedger(ledgers.raw, ledgers.sanitized)} :
           ldiff' = [result |-> d, thrown |-> LedgerGate(d)]
    /\ UNCHANGED <<ledgers, ingestVars, parked, sanVars, storeVars, classifyVars, scanVars,
                   captureVars>>

NextLedger == DiffLedgers
SpecLedger == InitLedger /\ [][NextLedger]_vars

----------------------------------------------------------------------------
(* Documents under test.  load(html) is cheerio's parser: a document is given *)
(* as the tree the parser builds, <html><head></head><body>...</body></html>  *)
(* with the listed elements as the children of <body>.                        *)

\* an element of <body>: tag, attributes, and its children: text (a string) or,
\* under "in", one nested element
Page(elements) ==
    LET n == Len(elements)
        \* the nested elements follow the children of <body>
        nestedAt(i) == 3 + n + Cardinality({j \in 1..i : "in" \in DOMAIN elements[j]})
        top(i) ==
            LET e == elements[i]
            IN  [tag |-> e.tag, parent |-> 3, attribs |-> e.attribs,
                 kids |-> IF "in" \in DOMAIN e THEN <<TagKid(nestedAt(i))>>
                          ELSE IF e.text = "" THEN <<>> ELSE <<TextKid(e.text)>>]
        nested == SelectSeq(elements, LAMBDA e : "in" \in DOMAIN e)
        ownerOf(k) == CHOOSE i \in 1..n : "in" \in DOMAIN elements[i] /\ nestedAt(i) = 3 + n + k
        inner(k) ==
            LET e == nested[k]["in"]
            IN  [tag |-> e.tag, parent |-> 3 + ownerOf(k), attribs |-> e.attribs,
                 kids |-> IF e.text = "" THEN <<>> ELSE <<TextKid(e.text)>>]
    IN  << [tag |-> "html", parent |-> 0, attribs |-> <<>>, kids |-> <<TagKid(2), TagKid(3)>>],
           [tag |-> "head", parent |-> 1, attribs |-> <<>>, kids |-> <<>>],
           [tag |-> "body", parent |-> 1, attribs |-> <<>>,
            kids |-> [i \in 1..n |-> TagKid(3 + i)]] >>
        \o [i \in 1..n |-> top(i)] \o [k \in 1..Len(nested) |-> inner(k)]

El(tag, attribs, text) == [tag |-> tag, attribs |-> attribs, text |-> text]
ElIn(tag, attribs, e) == [tag |-> tag, attribs |-> attribs, in |-> e]

\* the document of the test "produces deterministic sanitized output for same input"
DocDeterministic ==
    Page(<<El("a", <<Attr("href", "https://zhuanlan.zhihu.com/p/3333333333333333333")>>, "read"),
           El("p", <<>>, "Author Jane Doe")>>)
\* the document of the test "fails fast when fixture target already exists"
DocExisting == Page(<<El("p", <<>>, "name Alice Example")>>)
\* the links and the paragraph of the test "sanitizes sensitive values while
\* preserving unknown attributes"
DocSensitive ==
    Page(<<El("meta", <<Attr("itemprop", "name"), Attr("content", "Alice Example")>>, ""),
           El("a", <<Attr("href", "https://www.zhihu.com/question/123456789123/answer/987654321987?utm_source=abc123")>>, "post"),
           El("p", <<Attr("data-user-id", "123456789123"), Attr("data-custom-new", "feature-alpha")>>,
              "token ntn_abcd1234abcd1234")>>)
\* nothing to replace
DocPlain == Page(<<El("p", <<Attr("class", "lead")>>, "hello")>>)
\* a date followed by an epoch count in a data- attribute
DocTimestamp == Page(<<El("p", <<Attr("data-t", "2024-01-01 123456789")>>, "posted")>>)
\* two profile links
DocPeople ==
    Page(<<El("a", <<Attr("href", "https://www.zhihu.com/people/alice")>>, "Alice"),
           El("a", <<Attr("href", "https://www.zhihu.com/people/bob")>>, "Bob")>>)
\* a credential in the text of a link, which is no container element
DocSecret == Page(<<ElIn("p", <<>>, El("a", <<Attr("class", "k")>>, "ntn_abcd1234abcd1234"))>>)
\* the same credential beside the dated attribute
DocSecretTimestamp ==
    Page(<<ElIn("p", <<Attr("data-t", "2024-01-01 123456789")>>,
                El("a", <<Attr("class", "k")>>, "ntn_abcd1234abcd1234"))>>)

\* DocSensitive with another name, other ids, another campaign and another token in
\* the same places
DocSensitiveOther ==
    Page(<<El("meta", <<Attr("itemprop", "name"), Attr("content", "Carol Sample")>>, ""),
           El("a", <<Attr("href", "https://www.zhihu.com/question/555566667777/answer/888899990000?utm_source=xyz789")>>, "post"),
           El("p", <<Attr("data-user-id", "555566667777"), Attr("data-custom-new", "feature-alpha")>>,
              "token ntn_wxyz5678wxyz5678")>>)
\* an id and a token under attribute keys that are not looked at, beside one that is
DocIneligible ==
    Page(<<El("p", <<Attr("id", "123456789123"), Attr("class", "ntn_abcd1234abcd1234"),
                     Attr("data-user-id", "987654321987")>>,
              "token ntn_abcd1234abcd1234")>>)

\* <svg><html></html></svg><p>hello</p>: in foreign content the parser inserts an
\* html start tag as an element of its own
DocForeignHtml ==
    Page(<<ElIn("svg", <<>>, El("html", <<Attr("class", "lead")>>, "")),
           El("p", <<>>, "hello")>>)
\* a session cookie in the text of a paragraph
DocCookie == Page(<<El("p", <<>>, "cookie z_c0=abcdefgh12345678; path=/")>>)

Docs == <<DocDeterministic, DocExisting, DocSensitive, DocPlain, DocTimestamp, DocPeople,
          DocSecret, DocSecretTimestamp, DocSensitiveOther, DocIneligible, DocForeignHtml,
          DocCookie>>

----------------------------------------------------------------------------
(* The sanitizer on its own: SpecSan.  Runs of sanitizeHtmlForFixture follow   *)
(* one another in one process; the output of the first run is kept and every   *)
(* later run on the same input is compared with it.                            *)

SourceUrls == <<"https://www.zhihu.com/question/123456789123", "http://localhost:8080",
                "not a url">>
\* [doc, sourceUrl]: the documents of the sanitizer runs with the first URL, one of
\* them with the second, one with the string that is no URL
SanDocs == (1..6) \cup (9..12)
SanInputs ==
    {[doc |-> d, sourceUrl |-> 1] : d \in SanDocs}
    \cup {[doc |-> 1, sourceUrl |-> 2], [doc |-> 3, sourceUrl |-> 3]}

InitSan ==
    /\ run = <<>>
    /\ kept = <<>>
    /\ NoIngest /\ NoStore /\ NoClassifier /\ NoDiffer
    /\ NoScanner /\ NoCapture

\* one call sanitizeHtmlForFixture(html, sourceUrl) with the default policyVersion;
\* left is the context the runs so far left behind them
SanitizerRun(in) ==
    \E previous \in {IF run = <<>> THEN NewContext ELSE run.left} :
    \E result \in {sanitizeHtmlForFixture(Docs[in.doc], Chars(SourceUrls[in.sourceUrl]),
                                          "v1", previous)} :
        /\ run' = [input |-> in,
                   result |-> result,
                   left |-> IF result.threw THEN previous ELSE result.cx,
                   others |-> kept # <<>> /\ (run.others \/ in # kept.input)]
        /\ kept' = IF kept = <<>> THEN [input |-> in, result |-> result] ELSE kept
        /\ UNCHANGED <<ingestVars, parked, storeVars, classifyVars, differVars, scanVars,
                       captureVars>>

NextSan == \E in \in SanInputs : SanitizerRun(in)
SpecSan == InitSan /\ [][NextSan]_vars

----------------------------------------------------------------------------
(* runIngest: Spec.  One process; an invocation runs from "validating" to      *)
(* "done" or "aborted", and the next invocation finds the files the earlier    *)
(* ones left.                                                                  *)

\* what lies under the paths an IngestInput can name as htmlPath
File(doc) == [kind |-> "file", text |-> Serialize(doc, 1), doc |-> doc]
HtmlFiles ==
    [path \in {"in/post.html", "in/stamp.html", "in/secret.html", "in/both.html",
               "in/blank.html", "in/missing.html", "in/locked.html"} |->
        CASE path = "in/post.html" -> File(DocSensitive)
          [] path = "in/stamp.html" -> File(DocTimestamp)
          [] path = "in/secret.html" -> File(DocSecret)
          [] path = "in/both.html" -> File(DocSecretTimestamp)
          [] path = "in/blank.html" -> [kind |-> "file", text |-> Chars(" \n"), doc |-> <<>>]
          [] path = "in/missing.html" -> [kind |-> "absent"]
          [] path = "in/locked.html" -> [kind |-> "denied"]]

\* a second document that gets through, for the invocations that meet at one fixture
MoreHtmlFiles == [path \in {"in/other.html"} |-> File(DocDeterministic)]

FixtureNames == {"post-1", "../etc"}
IngestInputs ==
    [htmlPath : DOMAIN HtmlFiles, sourceUrl : {SourceUrls[1], SourceUrls[3]},
     fixture : FixtureNames, debugLedger : BOOLEAN]

\* input.outFixturesDir ?? path.join("tests", "fixtures"), input.policyVersion ?? "v1"
outFixturesDir == "tests/fixtures"
policyVersion == "v1"
\* path.join(outFixturesDir, `${fixture}${suffix}`); a fixture name that passed
\* assertFixtureName holds no separator and no dot, so nothing is normalised away
\* a plausible slip: one path for the sanitized HTML, whatever the fixture
sanitizedHtmlPath_Fixed(in) == outFixturesDir \o "/" \o "fixture" \o ".html"
sanitizedHtmlPath(in) == outFixturesDir \o "/" \o in.fixture \o ".html"
mapPath(in) == outFixturesDir \o "/" \o in.fixture \o ".map.json"
ledgerPath(in) == outFixturesDir \o "/" \o in.fixture \o ".ledger.json"
TrackedPaths(in) == {sanitizedHtmlPath(in), mapPath(in), ledgerPath(in)}
rawArchivePath == ".local/raw-imports"

\* the tracked destination: [denied |-> the directory cannot be searched,
\*                           files |-> path -> content, for the paths that exist]
Destination(paths) ==
    [denied |-> FALSE, files |-> [path \in paths |-> Chars("earlier")]]
Destinations ==
    LET in == [fixture |-> "post-1"]
    IN  {Destination({}), Destination({sanitizedHtmlPath(in)}), Destination({mapPath(in)}),
         Destination({ledgerPath(in)}), Destination({sanitizedHtmlPath(in), mapPath(in)}),
         [denied |-> TRUE, files |-> <<>>]}

\* new URL(sourceUrl) returns
assertValidSourceUrl(sourceUrl) == IsValidUrl(Chars(sourceUrl))

\* /^[A-Za-z0-9][A-Za-z0-9_-]*$/
RE_FixtureName == Cat(<<BOL, Set(AlNum, 1, 1), Set(AlNum \cup {"_", "-"}, 0, -1), EOL>>)
\* a plausible slip: the fixture name taken as it comes
assertFixtureName_Any(value) == TRUE
assertFixtureName(value) == Test(RE_FixtureName, Chars(value))

\* readTextFile under the catch of readInputHtml, on what lies under the path
ReadFile(f) ==
    CASE f.kind = "absent" -> [error |-> "E_FILE_NOT_FOUND"]
      [] f.kind = "denied" -> [error |-> "EACCES"]
      [] OTHER -> [error |-> "", text |-> f.text, doc |-> f.doc]
readInputHtml(htmlPath) ==
    ReadFile(IF htmlPath \in DOMAIN HtmlFiles THEN HtmlFiles[htmlPath]
             ELSE IF htmlPath \in DOMAIN MoreHtmlFiles THEN MoreHtmlFiles[htmlPath]
             ELSE [kind |-> "absent"])

\* a plausible slip: the pre-flight check that finds nothing in its way
assertTargetNotExists_Never(dest, filePath) == ""
\* access(filePath): "" when the path is free, else the error thrown
assertTargetNotExists(dest, filePath) ==
    IF dest.denied THEN "EACCES"
    ELSE IF filePath \in DOMAIN dest.files THEN "E_INGEST_TARGET_EXISTS"
    ELSE ""

\* writeTextFile(filePath, content): ensureDir, then writeFile, which ends in one of
\* "written", "failed" (nothing created) or "truncated" (created, content cut short)
WriteOutcomes == {"written", "failed", "truncated"}
writeTextFile(dest, filePath, content, outcome) ==
    CASE outcome = "failed" -> dest
      [] outcome = "truncated" ->
            [dest EXCEPT !.files = [q \in DOMAIN dest.files \cup {filePath} |->
                                       IF q = filePath THEN <<>> ELSE dest.files[q]]]
      [] OTHER ->
            [dest EXCEPT !.files = [q \in DOMAIN dest.files \cup {filePath} |->
                                       IF q = filePath THEN content ELSE dest.files[q]]]
\* writeJsonFile(filePath, value): `${JSON.stringify(value, null, 2)}\n`
MapFileText(map) == MapJson(map) \o <<"\n">>

\* a plausible slip: the ledger path reported whether or not the dump was written
IngestResult_LedgerAlways(in, sanitization, d) ==
    [ok |-> TRUE,
     input |-> [htmlPath |-> in.htmlPath, sourceUrl |-> in.sourceUrl, fixture |-> in.fixture],
     artifacts |-> [rawArchivePath |-> rawArchivePath,
                    sanitizedHtmlPath |-> sanitizedHtmlPath(in),
                    mapPath |-> mapPath(in),
                    ledgerPath |-> ledgerPath(in)],
     stats |-> [replacements |-> Len(sanitization.map),
                ledgerNodesRaw |-> Len(sanitization.rawLedger.nodes),
                ledgerNodesSanitized |-> Len(sanitization.sanitizedLedger.nodes),
                diffWarnings |-> Len(d.warnings)]]
\* the IngestResult of a run that got through
IngestResult(in, sanitization, d) ==
    [ok |-> TRUE,
     input |-> [htmlPath |-> in.htmlPath, sourceUrl |-> in.sourceUrl, fixture |-> in.fixture],
     artifacts |-> [rawArchivePath |-> rawArchivePath,
                    sanitizedHtmlPath |-> sanitizedHtmlPath(in),
                    mapPath |-> mapPath(in),
                    ledgerPath |-> IF in.debugLedger THEN ledgerPath(in) ELSE Undefined],
     stats |-> [replacements |-> Len(sanitization.map),
                ledgerNodesRaw |-> Len(sanitization.rawLedger.nodes),
                ledgerNodesSanitized |-> Len(sanitization.sanitizedLedger.nodes),
                diffWarnings |-> Len(d.warnings)]]

AllChecks == {"sourceUrl", "fixture", "html", "sanitize", "diff", "scan", "preflight"}

Init ==
    /\ pc = "validating"
    /\ input \in IngestInputs
    /\ fs \in Destinations
    /\ rawArchive = {}
    /\ before = [fs |-> fs, rawArchive |-> rawArchive, returned |-> {}]
    /\ wrote = {} /\ passed = {}
    /\ NoInvocationState
    /\ NoneParked /\ NoSanitizerRuns /\ NoStore /\ NoClassifier /\ NoDiffer
    /\ NoScanner /\ NoCapture

\* throw new Error(e)
Abort(e) == pc' = "aborted" /\ err' = e
others == <<sanVars, storeVars, classifyVars, differVars, scanVars, captureVars>>

\* the tag in the message of each throw statement of runIngest and of the functions it
\* calls, by the condition under which the statement is reached
Thrown ==
    [condition \in {"invalid source URL", "invalid fixture name", "file not found",
                    "blank HTML", "sanitize failure", "ledger violation", "secret pattern",
                    "target exists"} |->
        CASE condition = "invalid source URL" -> "E_INGEST_INVALID_SOURCE_URL"
          [] condition = "invalid fixture name" -> "E_INGEST_SANITIZE_FAILED"
          [] condition = "file not found" -> "E_FILE_NOT_FOUND"
          [] condition = "blank HTML" -> "E_INGEST_INVALID_HTML"
          [] condition = "sanitize failure" -> "E_INGEST_SANITIZE_FAILED"
          [] condition = "ledger violation" -> "E_INGEST_LEDGER_DIFF"
          [] condition = "secret pattern" -> "E_INGEST_SECRET_PATTERN"
          [] condition = "target exists" -> "E_INGEST_TARGET_EXISTS"]

\* a plausible slip: the two assertions in the other order
Validate_FixtureFirst ==
    /\ pc = "validating"
    /\ IF ~assertFixtureName(input.fixture)
       THEN Abort("E_INGEST_SANITIZE_FAILED") /\ UNCHANGED passed
       ELSE IF ~assertValidSourceUrl(input.sourceUrl)
       THEN Abort("E_INGEST_INVALID_SOURCE_URL") /\ passed' = passed \cup {"fixture"}
       ELSE pc' = "reading" /\ passed' = passed \cup {"sourceUrl", "fixture"}
            /\ UNCHANGED err
    /\ UNCHANGED <<input, html, san, diff, fs, rawArchive, wrote, before, caught, ret, parked, others>>
\* assertValidSourceUrl(input.sourceUrl); assertFixtureName(input.fixture)
Validate ==
    /\ pc = "validating"
    /\ IF ~assertValidSourceUrl(input.sourceUrl)
       THEN Abort("E_INGEST_INVALID_SOURCE_URL") /\ UNCHANGED passed
       ELSE IF ~assertFixtureName(input.fixture)
       THEN Abort("E_INGEST_SANITIZE_FAILED") /\ passed' = passed \cup {"sourceUrl"}
       ELSE pc' = "reading" /\ passed' = passed \cup {"sourceUrl", "fixture"}
            /\ UNCHANGED err
    /\ UNCHANGED <<input, html, san, diff, fs, rawArchive, wrote, before, caught, ret, parked, others>>

\* const html = await readInputHtml(input.htmlPath); if (!html.trim()) throw
ReadHtml ==
    /\ pc = "reading"
    /\ LET r == IF capture # <<>> /\ input.htmlPath \in DOMAIN capture.dir
                THEN ReadFile(capture.dir[input.htmlPath])
                ELSE readInputHtml(input.htmlPath)
       IN  IF r.error # "" THEN Abort(r.error) /\ UNCHANGED <<html, passed>>
           ELSE IF Trim(r.text) = <<>>
           THEN Abort("E_INGEST_INVALID_HTML") /\ UNCHANGED <<html, passed>>
           ELSE /\ html' = [text |-> r.text, doc |-> r.doc]
                /\ pc' = "sanitizing" /\ passed' = passed \cup {"html"}
                /\ UNCHANGED err
    /\ UNCHANGED <<input, san, diff, fs, rawArchive, wrote, before, caught, ret, parked, others>>

\* what can be thrown inside sanitizeHtmlForFixture by the libraries it calls (new URL,
\* cheerio's load, text and html, String.prototype.replace): the name of the error
\* class, "Invalid URL" for an Error that is no TypeError and has that message,
\* "TypeError: Invalid URL" for the TypeError with that message that new URL throws, a
\* RangeError when the call stack or a string length is exceeded; "none" when the call
\* returns or throws on its own account
SanitizeFaults == {"none", "TypeError", "ReferenceError", "SyntaxError", "Invalid URL",
                   "RangeError", "TypeError: Invalid URL"}
\* the catch clause around sanitizeHtmlForFixture: what runIngest throws for what it caught
Caught(thrown) ==
    IF thrown \in {"TypeError", "ReferenceError", "SyntaxError", "TypeError: Invalid URL"}
    THEN "E_INGEST_SANITIZE_FAILED"
    ELSE IF thrown = "Invalid URL" THEN "E_INGEST_INVALID_SOURCE_URL"
    ELSE thrown

\* sanitization = sanitizeHtmlForFixture(html, input.sourceUrl, policyVersion), inside the
\* try whose catch is Caught; new URL on a string that is no URL throws a TypeError
Sanitize(fault) ==
    /\ pc = "sanitizing"
    /\ IF fault # "none"
       THEN Abort(Caught(fault)) /\ caught' = fault /\ UNCHANGED <<san, passed>>
       ELSE \E r \in {sanitizeHtmlForFixture(html.doc, Chars(input.sourceUrl), policyVersion,
                                             NewContext)} :
               IF r.threw
               THEN /\ Abort(Caught("TypeError: Invalid URL"))
                    /\ caught' = "TypeError: Invalid URL" /\ UNCHANGED <<san, passed>>
               ELSE /\ san' = r
                    /\ pc' = "diffing" /\ passed' = passed \cup {"sanitize"}
                    /\ UNCHANGED <<err, caught>>
    /\ UNCHANGED <<input, html, diff, fs, rawArchive, wrote, before, ret, parked, others>>

\* const diff = diffStructureLedger(...); if (!diff.ok) throw
DiffCheck ==
    /\ pc = "diffing"
    /\ diff' = diffStructureLedger(san.rawLedger, san.sanitizedLedger)
    /\ IF LedgerGate(diff') # "" THEN Abort(LedgerGate(diff')) /\ UNCHANGED passed
       ELSE pc' = "scanning" /\ passed' = passed \cup {"diff"} /\ UNCHANGED err
    /\ UNCHANGED <<input, html, san, fs, rawArchive, wrote, before, caught, ret, parked, others>>

\* htmlHits, mapHits; if (htmlHits.length > 0 || mapHits.length > 0) throw
SecretScan ==
    /\ pc = "scanning"
    /\ LET htmlHits == findForbiddenSecretPatterns(san.sanitizedHtml)
           mapHits == findForbiddenSecretPatterns(MapJson(san.map))
       IN  IF Len(htmlHits) > 0 \/ Len(mapHits) > 0
           THEN Abort("E_INGEST_SECRET_PATTERN") /\ UNCHANGED passed
           ELSE pc' = "preflight" /\ passed' = passed \cup {"scan"} /\ UNCHANGED err
    /\ UNCHANGED <<input, html, san, diff, fs, rawArchive, wrote, before, caught, ret, parked, others>>

\* a plausible slip, taken the other way: a pre-flight check that is a lock, and stops an
\* invocation when another one for the same fixture has passed the check
Preflight_Exclusive ==
    /\ pc = "preflight"
    /\ LET atHtml == assertTargetNotExists(fs, sanitizedHtmlPath(input))
           atMap == assertTargetNotExists(fs, mapPath(input))
           atLedger == IF input.debugLedger THEN assertTargetNotExists(fs, ledgerPath(input))
                       ELSE ""
       IN  IF parked # <<>> /\ "preflight" \in parked.passed
              /\ parked.input.fixture = input.fixture
           THEN Abort("E_INGEST_TARGET_EXISTS") /\ UNCHANGED passed
           ELSE IF atHtml # "" THEN Abort(atHtml) /\ UNCHANGED passed
           ELSE IF atMap # "" THEN Abort(atMap) /\ UNCHANGED passed
           ELSE IF atLedger # "" THEN Abort(atLedger) /\ UNCHANGED passed
           ELSE pc' = "writingRaw" /\ passed' = passed \cup {"preflight"} /\ UNCHANGED err
    /\ UNCHANGED <<input, html, san, diff, fs, rawArchive, wrote, before, caught, ret, parked, others>>
\* the three awaited assertTargetNotExists, the third under if (input.debugLedger)
Preflight ==
    /\ pc = "preflight"
    /\ LET atHtml == assertTargetNotExists(fs, sanitizedHtmlPath(input))
           atMap == assertTargetNotExists(fs, mapPath(input))
           atLedger == IF input.debugLedger THEN assertTargetNotExists(fs, ledgerPath(input))
                       ELSE ""
       IN  IF atHtml # "" THEN Abort(atHtml) /\ UNCHANGED passed
           ELSE IF atMap # "" THEN Abort(atMap) /\ UNCHANGED passed
           ELSE IF atLedger # "" THEN Abort(atLedger) /\ UNCHANGED passed
           ELSE pc' = "writingRaw" /\ passed' = passed \cup {"preflight"} /\ UNCHANGED err
    /\ UNCHANGED <<input, html, san, diff, fs, rawArchive, wrote, before, caught, ret, parked, others>>

\* await writeTextFile(rawArchivePath, html): the copy is kept with the fixture it was
\* made for; of the time in the directory name nothing is kept
WriteRaw(outcome) ==
    /\ pc = "writingRaw"
    /\ rawArchive' = IF outcome = "failed" THEN rawArchive
                     ELSE rawArchive \cup {[fixture |-> input.fixture,
                                            content |-> IF outcome = "written" THEN html.text
                                                        ELSE <<>>]}
    /\ wrote' = IF outcome = "failed" THEN wrote ELSE wrote \cup {rawArchivePath}
    /\ IF outcome = "written" THEN pc' = "writingHtml" /\ UNCHANGED err ELSE Abort("EIO")
    /\ UNCHANGED <<input, html, san, diff, fs, passed, before, caught, ret, parked, others>>

\* one awaited write to a tracked path, and where the invocation stands after it
WriteTracked(at, filePath, content, outcome, then) ==
    /\ pc = at
    /\ fs' = writeTextFile(fs, filePath, content, outcome)
    /\ wrote' = IF outcome = "failed" THEN wrote ELSE wrote \cup {filePath}
    /\ IF outcome = "written" THEN pc' = then /\ UNCHANGED err ELSE Abort("EIO")
    /\ ret' = IF outcome = "written" /\ then = "done" THEN IngestResult(input, san, diff) ELSE ret
    /\ UNCHANGED <<input, html, san, diff, rawArchive, passed, before, caught, parked, others>>

\* await writeTextFile(sanitizedHtmlPath, sanitization.sanitizedHtml)
WriteHtml(outcome) ==
    WriteTracked("writingHtml", sanitizedHtmlPath(input), san.sanitizedHtml, outcome,
                 "writingMap")

\* await writeJsonFile(mapPath, sanitization.map); without debugLedger the result is
\* returned next
WriteMap(outcome) ==
    WriteTracked("writingMap", mapPath(input), MapFileText(san.map), outcome,
                 IF input.debugLedger THEN "writingLedger" ELSE "done")

\* await writeJsonFile(ledgerPath, {policyVersion, raw, sanitized, diff}): the object is
\* kept as it is, its JSON text is not spelled out
WriteLedger(outcome) ==
    WriteTracked("writingLedger", ledgerPath(input),
                 [policyVersion |-> policyVersion, raw |-> san.rawLedger,
                  sanitized |-> san.sanitizedLedger, diff |-> diff],
                 outcome, "done")

\* the next call of runIngest in the process, once the one before has ended
Invoke(in) ==
    /\ pc \in {"done", "aborted"}
    /\ pc' = "validating"
    /\ input' = in
    /\ before' = [fs |-> fs, rawArchive |-> rawArchive,
                  returned |-> IF pc = "done" THEN before.returned \cup {input}
                               ELSE before.returned]
    /\ html' = <<>> /\ san' = <<>> /\ diff' = <<>> /\ err' = "" /\ caught' = ""
    /\ wrote' = {} /\ passed' = {}
    /\ ret' = <<>>
    /\ UNCHANGED <<fs, rawArchive, parked, others>>

Next ==
    \/ Validate
    \/ ReadHtml
    \/ \E fault \in SanitizeFaults : Sanitize(fault)
    \/ DiffCheck
    \/ SecretScan
    \/ Preflight
    \/ \E outcome \in WriteOutcomes : WriteRaw(outcome)
    \/ \E outcome \in WriteOutcomes : WriteHtml(outcome)
    \/ \E outcome \in WriteOutcomes : WriteMap(outcome)
    \/ \E outcome \in WriteOutcomes : WriteLedger(outcome)
    \/ \E in \in IngestInputs : Invoke(in)
Spec == Init /\ [][Next]_vars

----------------------------------------------------------------------------
(* runCaptureFixture: SpecCapture.  One invocation: the download, the page and *)
(* its meta.json saved in a run directory of its own, runIngest on the saved   *)
(* page, the artifacts copied into the run directory.                          *)

\* what downloadHtml returns, of the fields runCaptureFixture reads: the fetch threw (no
\* finalUrl, no html); a status other than 200, with the body; status 200 with an empty
\* body; status 200 with a page.  html: [given |-> it is not undefined, text, doc]
Body(doc) == [given |-> TRUE, text |-> Serialize(doc, 1), doc |-> doc]
BlankBody == [given |-> TRUE, text |-> Chars(" \n"), doc |-> <<>>]
EmptyBody == [given |-> TRUE, text |-> <<>>, doc |-> <<>>]
NoBody == [given |-> FALSE, text |-> <<>>, doc |-> <<>>]
Downloads ==
    {[ok |-> FALSE, finalUrl |-> Undefined, html |-> NoBody]}
    \cup {[ok |-> FALSE, finalUrl |-> SourceUrls[1], html |-> Body(DocSensitive)]}
    \cup [ok : {TRUE}, finalUrl : {SourceUrls[1], SourceUrls[2]},
          html : {EmptyBody, BlankBody, Body(DocSensitive), Body(DocSecret)}]
CaptureInputs == [url : {SourceUrls[1]}, fixture : FixtureNames, debugLedger : BOOLEAN]

\* createOutputDir(outputBaseDir, input.url): a directory named after the time and the URL
outputDir == "output/run"
pagePath == outputDir \o "/page.html"
metaPath == outputDir \o "/meta.json"
copiedArtifactsDir == outputDir \o "/ingest"
CopiedPath(trackedPath) == copiedArtifactsDir \o "/" \o trackedPath

\* { ...download, html: undefined }
WithoutHtml(download) == [download EXCEPT !.html = NoBody]
\* !download.html: undefined or the empty string
NoHtml(download) == ~download.html.given \/ download.html.text = <<>>
\* a plausible slip: the ok flag of the download not looked at
FetchFailed_HtmlOnly(download) == NoHtml(download)
\* if (!download.ok || !download.html)
FetchFailed(download) == ~download.ok \/ NoHtml(download)

\* the CaptureFixtureResult of the three return statements
FetchFailedResult(download) ==
    [ok |-> FALSE, reason |-> "fetch failed", fetch |-> [result |-> download]]
FetchOf(download) ==
    [outputDir |-> outputDir, htmlPath |-> pagePath, result |-> WithoutHtml(download)]
\* a plausible slip: the message of the error left out of the result
IngestFailedResult_Bare(message, download) ==
    [ok |-> FALSE, reason |-> "ingest failed", ingestError |-> "", fetch |-> FetchOf(download)]
IngestFailedResult(message, download) ==
    [ok |-> FALSE, reason |-> "ingest failed: " \o message, ingestError |-> message,
     fetch |-> FetchOf(download)]
CapturedResult(download, ingest, sourceUrl) ==
    [ok |-> TRUE, fetch |-> FetchOf(download), ingest |-> ingest,
     handoff |-> [sourceUrl |-> sourceUrl, htmlPath |-> pagePath,
                  copiedArtifactsDir |-> copiedArtifactsDir]]

\* the run directory with a file written to it
Saved(dir, filePath, file) ==
    [q \in DOMAIN dir \cup {filePath} |-> IF q = filePath THEN file ELSE dir[q]]

InitCapture ==
    /\ fs \in Destinations
    /\ \E in \in CaptureInputs :
           capture = [pc |-> "downloading", input |-> in, download |-> <<>>, dir |-> <<>>,
                      made |-> FALSE, found |-> fs, result |-> <<>>]
    /\ pc = "idle" /\ input = <<>> /\ rawArchive = {} /\ before = <<>>
    /\ wrote = {} /\ passed = {}
    /\ NoInvocationState
    /\ NoneParked /\ NoSanitizerRuns /\ NoStore /\ NoClassifier /\ NoDiffer /\ NoScanner

\* const download = await downloadHtml(...); if (!download.ok || !download.html) return
Download(download) ==
    /\ capture.pc = "downloading"
    /\ capture' = IF FetchFailed(download)
                  THEN [capture EXCEPT !.pc = "returned", !.download = download,
                                       !.result = FetchFailedResult(download)]
                  ELSE [capture EXCEPT !.pc = "savingPage", !.download = download]
    /\ UNCHANGED <<ingestVars, parked, sanVars, storeVars, classifyVars, differVars, scanVars>>

\* createOutputDir and writeTextFile(htmlPath, download.html), outside the try: the
\* directory is not made, or it is made and the page is not written, or both succeed
SaveOutcomes == {"written", "failed", "no directory"}
SavePage(outcome) ==
    /\ capture.pc = "savingPage"
    /\ capture' =
           CASE outcome = "no directory" -> [capture EXCEPT !.pc = "threw"]
             [] outcome = "failed" -> [capture EXCEPT !.pc = "threw", !.made = TRUE]
             [] OTHER ->
                   [capture EXCEPT
                       !.pc = "savingMeta", !.made = TRUE,
                       !.dir = Saved(@, pagePath,
                                     [kind |-> "file", text |-> capture.download.html.text,
                                      doc |-> capture.download.html.doc])]
    /\ UNCHANGED <<ingestVars, parked, sanVars, storeVars, classifyVars, differVars, scanVars>>

\* writeJsonFile(meta.json, {download: {...download, html: undefined}}), then the call
\* runIngest({htmlPath, sourceUrl: download.finalUrl ?? input.url, fixture, ...}), which
\* runs to its first await
SaveMeta(outcome) ==
    /\ capture.pc = "savingMeta"
    /\ IF outcome = "written"
       THEN /\ capture' = [capture EXCEPT
                              !.pc = "ingesting",
                              !.dir = Saved(@, metaPath,
                                            [download |-> WithoutHtml(capture.download)])]
            /\ pc' = "validating"
            /\ input' = [htmlPath |-> pagePath,
                         sourceUrl |-> IF capture.download.finalUrl # Undefined
                                       THEN capture.download.finalUrl
                                       ELSE capture.input.url,
                         fixture |-> capture.input.fixture,
                         debugLedger |-> capture.input.debugLedger]
            /\ before' = [fs |-> fs, rawArchive |-> rawArchive, returned |-> {}]
       ELSE /\ capture' = [capture EXCEPT !.pc = "threw"]
            /\ UNCHANGED <<pc, input, before>>
    /\ UNCHANGED <<html, san, diff, err, fs, rawArchive, wrote, passed, caught, ret, parked,
                   sanVars, storeVars, classifyVars, differVars, scanVars>>

\* the tracked paths copyFile is called on, in the order of the calls
CopiedPaths(ingest) ==
    <<ingest.artifacts.sanitizedHtmlPath, ingest.artifacts.mapPath>>
    \o (IF ingest.artifacts.ledgerPath # Undefined THEN <<ingest.artifacts.ledgerPath>>
        ELSE <<>>)
\* ensureDir(copiedArtifactsDir) and the awaited copyFile calls on the result of
\* runIngest, then the return; `copies` of the copies are made before a call fails, and
\* the catch clause returns for the error of that call
CopyArtifacts(copies) ==
    /\ capture.pc = "ingesting" /\ pc = "done"
    /\ LET paths == CopiedPaths(ret)
           copied == [q \in {CopiedPath(paths[i]) : i \in 1..copies} |->
                         fs.files[CHOOSE t \in Range(paths) : CopiedPath(t) = q]]
       IN  /\ copies <= Len(paths)
           /\ capture' =
                  [capture EXCEPT
                      !.pc = "returned",
                      !.dir = [q \in DOMAIN @ \cup DOMAIN copied |->
                                  IF q \in DOMAIN copied THEN copied[q] ELSE @[q]],
                      !.result = IF copies = Len(paths)
                                 THEN CapturedResult(capture.download, ret, input.sourceUrl)
                                 ELSE IngestFailedResult("EIO", capture.download)]
    /\ UNCHANGED <<ingestVars, parked, sanVars, storeVars, classifyVars, differVars, scanVars>>

\* catch (error): runIngest threw
CatchIngest ==
    /\ capture.pc = "ingesting" /\ pc = "aborted"
    /\ capture' = [capture EXCEPT !.pc = "returned",
                                  !.result = IngestFailedResult(err, capture.download)]
    /\ UNCHANGED <<ingestVars, parked, sanVars, storeVars, classifyVars, differVars, scanVars>>

NextCapture ==
    \/ \E download \in Downloads : Download(download)
    \/ \E outcome \in SaveOutcomes : SavePage(outcome)
    \/ \E outcome \in {"written", "failed"} : SaveMeta(outcome)
    \/ Validate
    \/ ReadHtml
    \/ \E fault \in SanitizeFaults : Sanitize(fault)
    \/ DiffCheck
    \/ SecretScan
    \/ Preflight
    \/ \E outcome \in WriteOutcomes : WriteRaw(outcome)
    \/ \E outcome \in WriteOutcomes : WriteHtml(outcome)
    \/ \E outcome \in WriteOutcomes : WriteMap(outcome)
    \/ \E outcome \in WriteOutcomes : WriteLedger(outcome)
    \/ \E copies \in 0..3 : CopyArtifacts(copies)
    \/ CatchIngest
SpecCapture == InitCapture /\ [][NextCapture]_vars

----------------------------------------------------------------------------
(* Two invocations of runIngest in one process: SpecPar.  runIngest is an      *)
(* async function: two calls that were both started take their steps in any   *)
(* order the event loop gives them.  The variables of runIngest hold the       *)
(* invocation that takes the next step, parked holds the locals of the other;  *)
(* the file system is the one thing the two have in common.                    *)

\* the locals of an invocation
Locals ==
    [pc |-> pc, input |-> input, html |-> html, san |-> san, diff |-> diff, err |-> err,
     wrote |-> wrote, passed |-> passed, ret |-> ret]
Started(in) ==
    [pc |-> "validating", input |-> in, html |-> <<>>, san |-> <<>>, diff |-> <<>>,
     err |-> "", wrote |-> {}, passed |-> {}, ret |-> <<>>]

\* the two calls: different fixture names, and documents that get through or abort
ParInputs(fixture) ==
    [htmlPath : {"in/post.html", "in/secret.html"},
     sourceUrl : {SourceUrls[1]}, fixture : {fixture}, debugLedger : BOOLEAN]
ParDestinations ==
    {Destination({}), Destination({sanitizedHtmlPath([fixture |-> "post-1"])}),
     Destination({ledgerPath([fixture |-> "post-2"])})}

InitPar ==
    /\ pc = "validating"
    /\ input \in ParInputs("post-1")
    /\ parked \in {Started(in) : in \in ParInputs("post-2")}
    /\ fs \in ParDestinations
    /\ rawArchive = {}
    /\ before = [fs |-> fs, rawArchive |-> rawArchive, returned |-> {}]
    /\ wrote = {} /\ passed = {}
    /\ NoInvocationState
    /\ NoSanitizerRuns /\ NoStore /\ NoClassifier /\ NoDiffer
    /\ NoScanner /\ NoCapture

\* the event loop goes on with the other invocation
Switch ==
    /\ parked # <<>>
    /\ parked' = Locals
    /\ pc' = parked.pc /\ input' = parked.input /\ html' = parked.html
    /\ san' = parked.san /\ diff' = parked.diff /\ err' = parked.err
    /\ wrote' = parked.wrote /\ passed' = parked.passed /\ ret' = parked.ret
    /\ UNCHANGED <<fs, rawArchive, before, caught, others>>

NextPar ==
    \/ Validate
    \/ ReadHtml
    \/ Sanitize("none")
    \/ DiffCheck
    \/ SecretScan
    \/ Preflight
    \/ WriteRaw("written")
    \/ WriteHtml("written")
    \/ WriteMap("written")
    \/ WriteLedger("written")
    \/ Switch
SpecPar == InitPar /\ [][NextPar]_vars

\* SpecRace: the two calls name the same fixture and the same destination
RaceInputs ==
    [htmlPath : {"in/post.html", "in/other.html"},
     sourceUrl : {SourceUrls[1]}, fixture : {"post-1"}, debugLedger : BOOLEAN]
RaceDestinations == {Destination({}), Destination({mapPath([fixture |-> "post-1"])})}

InitRace ==
    /\ pc = "validating"
    /\ input \in RaceInputs
    /\ parked \in {Started(in) : in \in RaceInputs}
    /\ fs \in RaceDestinations
    /\ rawArchive = {}
    /\ before = [fs |-> fs, rawArchive |-> rawArchive, returned |-> {}]
    /\ wrote = {} /\ passed = {}
    /\ NoInvocationState
    /\ NoSanitizerRuns /\ NoStore /\ NoClassifier /\ NoDiffer /\ NoScanner /\ NoCapture

SpecRace == InitRace /\ [][NextPar]_vars

----------------------------------------------------------------------------
(* Properties of the placeholder store *)

SameRequest(a, b) == a.category = b.category /\ a.raw = b.raw

\* C7: after any sequence of nextPlaceholder calls on one store, two calls with the
\* same (category, raw value) returned the same placeholder, and two calls whose
\* (category, raw value) differ returned different placeholders, within a category
\* and across categories.
C7_StoreMemoInjective ==
    \A i, j \in DOMAIN calls :
        SameRequest(calls[i], calls[j]) <=> calls[i].placeholder = calls[j].placeholder

\* a repeated request, a second raw value in the same category and the same raw value
\* in another category have all been served
C7_Witness ==
    \E i, j, k, l \in DOMAIN calls :
        /\ i < j /\ SameRequest(calls[i], calls[j])
        /\ calls[k].category = calls[i].category /\ calls[k].raw # calls[i].raw
        /\ calls[l].category # calls[i].category /\ calls[l].raw = calls[i].raw

----------------------------------------------------------------------------
(* Properties of the value classifier *)

Classified == cres # "none"
\* /[0-9]{9,}/: a run of nine or more digits somewhere in the string
HasLongDigitRun(s) == Test(Set(Digit, 9, -1), s)
\* /^https?:\/\//i: the string is an absolute http(s) URL
IsAbsoluteUrl(s) == Test(RE_Http, s)

\* C9: classifyValue is total and single-valued: every string gets exactly one of the
\* eight classes; a blank string gets empty; otherwise the first rule that matches in
\* the order path-like, url, long numeric id, timestamp-like, email-like, token-like
\* decides, and plain_text is the fallback; an absolute URL holding a run of nine or
\* more digits is a url, not a long_numeric_id.
C9_ClassifyOrdered ==
    Classified =>
        LET t == Trim(cval)
        IN  /\ cres \in ValueClass
            /\ (t = <<>>) <=> (cres = "empty")
            /\ t # <<>> =>
                 cres = CASE IsPathLike(t) -> "path_like"
                          [] ~IsPathLike(t) /\ IsUrl(t) -> "url"
                          [] ~IsPathLike(t) /\ ~IsUrl(t) /\ IsLongNumericId(t) -> "long_numeric_id"
                          [] ~IsPathLike(t) /\ ~IsUrl(t) /\ ~IsLongNumericId(t)
                             /\ IsTimestampLike(t) -> "timestamp_like"
                          [] ~IsPathLike(t) /\ ~IsUrl(t) /\ ~IsLongNumericId(t)
                             /\ ~IsTimestampLike(t) /\ IsEmailLike(t) -> "email_like"
                          [] ~IsPathLike(t) /\ ~IsUrl(t) /\ ~IsLongNumericId(t)
                             /\ ~IsTimestampLike(t) /\ ~IsEmailLike(t) /\ IsTokenLike(t)
                               -> "token_like"
                          [] OTHER -> "plain_text"
            /\ IsAbsoluteUrl(t) /\ HasLongDigitRun(t) => cres = "url"

\* a string on which a later rule matches as well has been classified by the earlier
\* one: an absolute URL with a long digit run and a 24-character run, classified url
C9_Witness ==
    /\ Classified /\ cres = "url"
    /\ IsAbsoluteUrl(Trim(cval)) /\ HasLongDigitRun(Trim(cval)) /\ IsTokenLike(Trim(cval))

\* C10: classifyValue returns url for every non-blank string whose trimmed form
\* starts with http://, https:// or the protocol-relative prefix //.
C10_UrlPrefixIsUrl ==
    Classified /\ (\/ StartsWith(Trim(cval), Chars("http://"))
                   \/ StartsWith(Trim(cval), Chars("https://"))
                   \/ StartsWith(Trim(cval), Chars("//")))
        => cres = "url"

----------------------------------------------------------------------------
(* Properties of the sanitizer *)

Returned == run # <<>> /\ ~run.result.threw
Contains(s, sub) == \E i \in 1..Len(s) : At(s, i, sub)
\* the replacements of the run whose placeholder stands in the sanitized document
ReplacedInDocument ==
    {e \in run.result.cx.log : Contains(run.result.sanitizedHtml, e.placeholder)}

\* C1: structural fidelity: whenever sanitizeHtmlForFixture returns, the diff of the
\* raw ledger and the sanitized ledger has no violation, whatever value class the
\* raw attribute values had.
C1_StructuralFidelity ==
    Returned =>
        diffStructureLedger(run.result.rawLedger, run.result.sanitizedLedger).violations = <<>>

\* C6: determinism: a run of sanitizeHtmlForFixture on the input of the first run gives
\* the sanitized HTML and the placeholder map of the first run, whatever runs were made
\* in between.
C6_Deterministic ==
    run # <<>> /\ run.input = kept.input =>
        /\ run.result.threw = kept.result.threw
        /\ ~run.result.threw =>
             /\ run.result.sanitizedHtml = kept.result.sanitizedHtml
             /\ run.result.map = kept.result.map
             /\ MapJson(run.result.map) = MapJson(kept.result.map)

\* the input of the first run has been sanitized again after runs on other inputs, and
\* placeholders were handed out
C6_Witness ==
    /\ Returned /\ run.input = kept.input /\ run.others
    /\ run.result.map # <<>>
    /\ run.result.sanitizedHtml # Serialize(Docs[run.input.doc], 1)

\* C8: within one run, two distinct raw values that are replaced in the document never
\* get the same placeholder.
C8_DistinctRawDistinctPlaceholder ==
    Returned =>
        \A a, b \in ReplacedInDocument : a.raw # b.raw => a.placeholder # b.placeholder

----------------------------------------------------------------------------
(* Properties of runIngest *)

TrackedWritten == wrote \cap TrackedPaths(input)
\* what the invocation was given to read
GivenFile == HtmlFiles[input.htmlPath]
NoHits(content) == findForbiddenSecretPatterns(content) = <<>>
Exists(dest, filePath) == filePath \in DOMAIN dest.files

\* C2: in every execution of runIngest, a tracked artifact path is written only after
\* the source URL and the fixture name were found valid, a non-blank HTML file was
\* read, the sanitizer returned, the ledger diff had no violation, the secret scan of
\* the sanitized HTML and of the serialized map had no hit, and the pre-flight checks
\* found the targets free.
C2_ChecksBeforeTrackedWrite ==
    (TrackedWritten # {} \/ fs # before.fs
     \/ pc \in {"writingHtml", "writingMap", "writingLedger", "done"}) =>
        /\ passed = AllChecks
        /\ IsValidUrl(Chars(input.sourceUrl))
        /\ Test(RE_FixtureName, Chars(input.fixture))
        /\ GivenFile.kind = "file" /\ Trim(GivenFile.text) # <<>>
        /\ san # <<>> /\ ~san.threw
        /\ diffStructureLedger(san.rawLedger, san.sanitizedLedger).violations = <<>>
        /\ NoHits(san.sanitizedHtml) /\ NoHits(MapJson(san.map))
        /\ ~before.fs.denied
        /\ ~Exists(before.fs, sanitizedHtmlPath(input))
        /\ ~Exists(before.fs, mapPath(input))
        /\ input.debugLedger => ~Exists(before.fs, ledgerPath(input))

\* an invocation has written its sanitized HTML and its map and returned
C2_Witness ==
    /\ pc = "done"
    /\ {sanitizedHtmlPath(input), mapPath(input)} \subseteq wrote
    /\ Exists(fs, sanitizedHtmlPath(input)) /\ fs.files[sanitizedHtmlPath(input)] = san.sanitizedHtml

\* C3: all-or-nothing tracked output: an invocation of runIngest that ends in an
\* abort, at whatever step, a failed file write included, has created or modified
\* none of the tracked artifacts.
C3_AllOrNothing ==
    pc = "aborted" => TrackedWritten = {} /\ fs = before.fs

HoldsSecret(content) ==
    \/ Test(Cat(<<LitI("z_c0"), Set(Space, 0, -1), Set({"=", ":"}, 1, 1), Set(Space, 0, -1),
                  Set(TokenChar, 16, -1)>>), content)
    \/ Test(Cat(<<WB, Lit("ntn_"), Set(TokenChar, 1, -1)>>), content)
    \/ Test(Lit("\"notionToken\":"), content)

\* C5: secret-gate soundness: whenever the sanitized HTML or the serialized placeholder
\* map of an invocation holds one of these credentials, the invocation aborts with
\* E_INGEST_SECRET_PATTERN and writes nothing, neither a tracked file nor the raw
\* archive.
C5_SecretGate ==
    (san # <<>> /\ pc \notin {"diffing", "scanning"}
     /\ (HoldsSecret(san.sanitizedHtml) \/ HoldsSecret(MapJson(san.map)))) =>
        /\ pc = "aborted" /\ err = "E_INGEST_SECRET_PATTERN"
        /\ wrote = {} /\ fs = before.fs /\ rawArchive = before.rawArchive

----------------------------------------------------------------------------
(* Properties of runIngest: the order of its phases and its errors *)

\* the statements of runIngest in the order of the source, and the phase of each
Position(p) ==
    CASE p = "validating" -> 1 [] p = "reading" -> 2 [] p = "sanitizing" -> 3
      [] p = "diffing" -> 4 [] p = "scanning" -> 5 [] p = "preflight" -> 6
      [] p = "writingRaw" -> 7 [] p = "writingHtml" -> 8 [] p = "writingMap" -> 9
      [] p = "writingLedger" -> 10 [] p = "done" -> 11 [] p = "aborted" -> 12
Phase(p) ==
    CASE p \in {"validating", "reading"} -> 1
      [] p = "sanitizing" -> 2
      [] p = "diffing" -> 3
      [] p = "scanning" -> 4
      [] p \in {"preflight", "writingRaw", "writingHtml", "writingMap", "writingLedger"} -> 5
      [] p \in {"done", "aborted"} -> 6
Terminal == pc \in {"done", "aborted"}

\* a step of an invocation goes on in its phase, enters the next phase or aborts; only
\* a new invocation leaves done or aborted
PhaseStep ==
    pc' # pc =>
        IF Terminal THEN pc' = "validating"
        ELSE \/ pc' = "aborted"
             \/ Position(pc') > Position(pc) /\ Phase(pc') <= Phase(pc) + 1

\* the error an aborted invocation must report: that of the first abort condition, in
\* the order of the phases, that its input and the destination it found satisfy
EarliestError ==
    IF ~IsValidUrl(Chars(input.sourceUrl)) THEN err = "E_INGEST_INVALID_SOURCE_URL"
    ELSE IF ~Test(RE_FixtureName, Chars(input.fixture)) THEN err = "E_INGEST_SANITIZE_FAILED"
    ELSE IF GivenFile.kind = "absent" THEN err = "E_FILE_NOT_FOUND"
    ELSE IF GivenFile.kind = "denied" THEN err = "EACCES"
    ELSE IF Trim(GivenFile.text) = <<>> THEN err = "E_INGEST_INVALID_HTML"
    ELSE IF san = <<>> THEN err \in {Caught(fault) : fault \in SanitizeFaults \ {"none"}}
    ELSE IF diffStructureLedger(san.rawLedger, san.sanitizedLedger).violations # <<>>
    THEN err = "E_INGEST_LEDGER_DIFF"
    ELSE IF ~NoHits(san.sanitizedHtml) \/ ~NoHits(MapJson(san.map))
    THEN err = "E_INGEST_SECRET_PATTERN"
    ELSE IF before.fs.denied THEN err = "EACCES"
    ELSE IF \E path \in TrackedPaths(input) :
                /\ Exists(before.fs, path)
                /\ path = ledgerPath(input) => input.debugLedger
    THEN err = "E_INGEST_TARGET_EXISTS"
    ELSE err = "EIO"

\* C13: an invocation of runIngest goes through validating, sanitizing, diff-checking,
\* secret-scanning and writing in that order, without skipping or revisiting a phase,
\* and ends in done or in aborted, which only a new invocation leaves; an aborted
\* invocation reports the error of the earliest abort condition that holds (invalid
\* source URL, invalid fixture name, missing file, blank HTML, sanitize failure, ledger
\* diff, secret pattern, target exists) and an invocation that is done reports none.
C13_PhaseOrder ==
    /\ [](pc = "aborted" => EarliestError)
    /\ [](pc # "aborted" => err = "")
    /\ [][PhaseStep]_vars

\* an invocation whose source URL, fixture name and HTML path are all bad has aborted on
\* the source URL
C13_Witness ==
    /\ pc = "aborted" /\ err = "E_INGEST_INVALID_SOURCE_URL"
    /\ ~IsValidUrl(Chars(input.sourceUrl))
    /\ ~Test(RE_FixtureName, Chars(input.fixture))
    /\ GivenFile.kind = "absent"

\* the statement of runIngest an aborted invocation threw from, by the checks it had
\* passed: the condition it aborted on
AbortCondition ==
    CASE "sourceUrl" \notin passed -> "invalid source URL"
      [] "fixture" \notin passed -> "invalid fixture name"
      [] "html" \notin passed ->
            CASE HtmlFiles[input.htmlPath].kind = "absent" -> "file not found"
              [] HtmlFiles[input.htmlPath].kind = "denied" -> "file unreadable"
              [] OTHER -> "blank HTML"
      [] "sanitize" \notin passed ->
            IF err = "E_INGEST_INVALID_SOURCE_URL" THEN "invalid source URL"
            ELSE "sanitize failure"
      [] "diff" \notin passed -> "ledger violation"
      [] "scan" \notin passed -> "secret pattern"
      [] "preflight" \notin passed ->
            IF fs.denied THEN "target unreadable" ELSE "target exists"
      [] OTHER -> "write failure"

\* the abort conditions the error taxonomy names
AbortConditions == DOMAIN Thrown

\* C14: the abort conditions of runIngest (source URL does not parse, fixture name does
\* not match the name pattern, HTML file not found, HTML blank, internal sanitize
\* failure, ledger-diff violation, secret-pattern hit, target already exists) each have
\* a tag of their own: the tag of an aborted invocation is the tag of no other
\* condition than the one it aborted on.
C14_OneTagPerCondition ==
    (pc = "aborted" /\ AbortCondition \in AbortConditions) =>
        \A other \in AbortConditions \ {AbortCondition} : Thrown[other] # err

\* C15: an invocation of runIngest that aborts in its sanitizing phase, whatever was
\* thrown inside sanitizeHtmlForFixture, aborts with E_INGEST_SANITIZE_FAILED or, for a
\* URL-parse failure, with E_INGEST_INVALID_SOURCE_URL: nothing untagged reaches the
\* caller.
C15_SanitizeFailuresTagged ==
    (pc = "aborted" /\ "html" \in passed /\ "sanitize" \notin passed) =>
        err \in {"E_INGEST_SANITIZE_FAILED", "E_INGEST_INVALID_SOURCE_URL"}

\* the ledger dump of the invocation
LedgerDump ==
    [policyVersion |-> policyVersion, raw |-> san.rawLedger,
     sanitized |-> san.sanitizedLedger, diff |-> diff]
\* the file at a path of a destination, Undefined when there is none
FileAt(dest, filePath) ==
    IF Exists(dest, filePath) THEN dest.files[filePath] ELSE Undefined

\* C18: when runIngest reaches done, the raw archive holds the HTML it read, the
\* sanitized-HTML path holds the sanitized HTML and the map path the placeholder map of
\* this invocation's sanitization; the ledger dump is written, and artifacts.ledgerPath
\* is set in the result, exactly when debugLedger is set; without debugLedger a
\* <fixture>.ledger.json that exists is not checked (it does not stop the invocation)
\* and is left as it was.
C18_SuccessPostcondition ==
    /\ pc = "done" =>
        /\ [fixture |-> input.fixture, content |-> html.text] \in rawArchive
        /\ FileAt(fs, sanitizedHtmlPath(input)) = san.sanitizedHtml
        /\ FileAt(fs, mapPath(input)) = MapFileText(san.map)
        /\ ret = IngestResult(input, san, diff)
        /\ ret.artifacts.sanitizedHtmlPath = sanitizedHtmlPath(input)
        /\ ret.artifacts.mapPath = mapPath(input)
        /\ IF input.debugLedger
           THEN /\ FileAt(fs, ledgerPath(input)) = LedgerDump
                /\ ret.artifacts.ledgerPath = ledgerPath(input)
                /\ wrote = TrackedPaths(input) \cup {rawArchivePath}
           ELSE /\ FileAt(fs, ledgerPath(input)) = FileAt(before.fs, ledgerPath(input))
                /\ ret.artifacts.ledgerPath = Undefined
                /\ wrote = {sanitizedHtmlPath(input), mapPath(input), rawArchivePath}
        /\ \A path \in DOMAIN fs.files \ TrackedPaths(input) :
               FileAt(fs, path) = FileAt(before.fs, path)
    /\ (~input.debugLedger /\ "scan" \in passed /\ ~before.fs.denied
        /\ ~Exists(before.fs, sanitizedHtmlPath(input))
        /\ ~Exists(before.fs, mapPath(input))) =>
           /\ err # "E_INGEST_TARGET_EXISTS"
           /\ FileAt(fs, ledgerPath(input)) = FileAt(before.fs, ledgerPath(input))
    /\ pc # "done" => ret = <<>>

\* an invocation without debugLedger is done where a <fixture>.ledger.json existed
C18_Witness ==
    /\ pc = "done" /\ ~input.debugLedger
    /\ Exists(before.fs, ledgerPath(input))
    /\ Exists(fs, sanitizedHtmlPath(input)) /\ Exists(fs, mapPath(input))

\* an invocation with debugLedger is done and has written its ledger dump
C18_WitnessDebug ==
    /\ pc = "done" /\ input.debugLedger
    /\ FileAt(fs, ledgerPath(input)) = LedgerDump

----------------------------------------------------------------------------
(* Properties of the placeholder map and of the sanitized tree *)

\* the placeholders handed out in a run, by the history of its replacements
AllocatedIn(r) == {e.placeholder : e \in r.result.cx.log}
\* the category a placeholder was handed out for
CategoriesOf(r, placeholder) ==
    {Chars(e.category) : e \in {l \in r.result.cx.log : l.placeholder = placeholder}}
PrefixAgrees(entry) ==
    \E c \in Category :
        /\ entry.category = Chars(c)
        /\ StartsWith(entry.placeholder, CategoryPrefix(c) \o Chars("_"))

\* C16: the placeholder map a run of sanitizeHtmlForFixture returns has exactly one
\* entry per placeholder handed out in the run and no two entries with the same
\* placeholder, is sorted ascending by placeholder, each entry's category is the one
\* the placeholder was handed out for and agrees with the placeholder's prefix
\* (PERSON, CID, TOKEN, COOKIE, TRACK), and sourceType is query exactly when the
\* category is tracking and attr otherwise.
C16_MapWellFormed ==
    Returned =>
        LET map == run.result.map
        IN  /\ {map[i].placeholder : i \in 1..Len(map)} = AllocatedIn(run)
            /\ Len(map) = Cardinality(AllocatedIn(run))
            /\ \A i, j \in 1..Len(map) :
                   i < j => /\ StrLess(CodeOrder, map[i].placeholder, map[j].placeholder)
                            /\ StrLess(LocaleOrder, map[i].placeholder, map[j].placeholder)
            /\ \A i \in 1..Len(map) :
                   /\ PrefixAgrees(map[i])
                   /\ CategoriesOf(run, map[i].placeholder) = {map[i].category}
                   /\ map[i].sourceType \in {Chars("query"), Chars("attr")}
                   /\ map[i].sourceType = Chars("query") <=> map[i].category = Chars("tracking")

\* a run has returned a map with a tracking entry and others, whose first placeholder
\* was not the first one handed out
C16_Witness ==
    /\ Returned
    /\ Len(run.result.map) >= 3
    /\ \E i \in 1..Len(run.result.map) : run.result.map[i].category = Chars("tracking")
    /\ \E i \in 1..Len(run.result.map) : run.result.map[i].category = Chars("person")
    /\ run.result.map[1].placeholder # run.result.cx.store.seen[1][2]

\* the categories of the placeholders of a run, in the order they were handed out
CategoryOrder(r) ==
    [i \in 1..Len(r.result.cx.store.seen) |-> KeyCategory(r.result.cx.store.seen[i][1], 1)]

\* C17: the placeholder map discloses no raw value: two runs whose documents differ in
\* the raw values that get replaced, with the same number of distinct values per
\* category handed out in the same order, return maps with the same JSON text, and no
\* text a run took out of its document stands in the JSON text of its map.
C17_MapDisclosesNothing ==
    /\ (Returned /\ ~kept.result.threw /\ CategoryOrder(run) = CategoryOrder(kept)) =>
           /\ MapJson(run.result.map) = MapJson(kept.result.map)
           /\ MapFileText(run.result.map) = MapFileText(kept.result.map)
    /\ Returned =>
           \A e \in run.result.cx.log : ~Contains(MapJson(run.result.map), e.raw)

\* the two documents of the same shape and with other raw values have been sanitized,
\* and each had a name, ids, a campaign and a token replaced
C17_Witness ==
    /\ Returned /\ ~kept.result.threw
    /\ {kept.input.doc, run.input.doc} = {3, 9}
    /\ CategoryOrder(run) = CategoryOrder(kept)
    /\ Len(run.result.map) >= 4
    /\ {e.raw : e \in run.result.cx.log} \cap {e.raw : e \in kept.result.cx.log} = {}

\* the attribute keys the sanitizer looks at: a key holding token, cookie, auth,
\* session or secret in any case, or url, href, src, content, value or data-, or alt
\* or title
EligibleKey(key) ==
    \/ \E word \in {"token", "cookie", "auth", "session", "secret"} :
           Contains(LowerStr(key), Chars(word))
    \/ \E word \in {"url", "href", "src", "content", "value", "data-"} :
           Contains(key, Chars(word))
    \/ key \in {Chars("alt"), Chars("title")}
SameKids(a, b) ==
    /\ Len(a) = Len(b)
    /\ \A k \in 1..Len(a) : a[k].t = b[k].t /\ (a[k].t = "tag" => a[k].id = b[k].id)

\* C20: sanitizeHtmlForFixture adds, removes and renames no element and no attribute
\* key, and leaves the value of every attribute whose key is not eligible for scrubbing
\* as it was; an attribute it does not know is kept.
C20_StructurePreserved ==
    Returned =>
        LET raw == Docs[run.input.doc]
            out == run.result.tree
        IN  /\ Len(out) = Len(raw)
            /\ \A id \in 1..Len(raw) :
                   /\ out[id].tag = raw[id].tag /\ out[id].parent = raw[id].parent
                   /\ SameKids(out[id].kids, raw[id].kids)
                   /\ Len(out[id].attribs) = Len(raw[id].attribs)
                   /\ \A k \in 1..Len(raw[id].attribs) :
                          /\ out[id].attribs[k].key = raw[id].attribs[k].key
                          /\ ~EligibleKey(raw[id].attribs[k].key) =>
                                 out[id].attribs[k].value = raw[id].attribs[k].value

\* a run has replaced an id under data-user-id and the token in the text, beside an id
\* and a token under keys that are not eligible
C20_Witness ==
    /\ Returned /\ run.input.doc = 10
    /\ run.result.tree # Docs[10]
    /\ \E k \in 1..Len(Docs[10][4].attribs) :
           /\ ~EligibleKey(Docs[10][4].attribs[k].key)
           /\ classifyValue(Docs[10][4].attribs[k].value) = "token_like"
    /\ \E k \in 1..Len(Docs[10][4].attribs) :
           /\ EligibleKey(Docs[10][4].attribs[k].key)
           /\ run.result.tree[4].attribs[k].value # Docs[10][4].attribs[k].value

\* the node paths of a ledger, one per node
NodePathsOf(ledger) == [i \in 1..Len(ledger.nodes) |-> ledger.nodes[i].nodePath]
Injective(seq) == \A i, j \in 1..Len(seq) : seq[i] = seq[j] => i = j

\* C21: every nodePath of a ledger built by analyzeStructure is unique: no two elements
\* of one parsed document get the same nodePath, so the maps diffStructureLedger builds
\* from the raw and the sanitized ledger hold every node.
C21_NodePathsUnique ==
    Returned =>
        /\ Injective(NodePathsOf(run.result.rawLedger))
        /\ Injective(NodePathsOf(run.result.sanitizedLedger))
        /\ Len(LedgerMap(run.result.rawLedger.nodes)) = Len(run.result.rawLedger.nodes)
        /\ Len(LedgerMap(run.result.sanitizedLedger.nodes))
               = Len(run.result.sanitizedLedger.nodes)

\* the run took text out of the document for a token or a cookie, and nothing it took
\* out is left in the sanitized document
ScrubbedClean ==
    /\ \E e \in run.result.cx.log : e.category \in {"token", "cookie"}
    /\ \A e \in run.result.cx.log : ~Contains(run.result.sanitizedHtml, e.raw)

\* C27: the output of the token scrub never trips the secret gate: when a run rewrote
\* the credentials of its document (a z_c0 assignment into z_c0=COOKIE_NNN, a bearer
\* token into Bearer TOKEN_NNN, an ntn_ token or an opaque run into TOKEN_NNN) and left
\* none of them behind, findForbiddenSecretPatterns finds nothing in the sanitized HTML
\* nor in the serialized map.
C27_ScrubbedPassesGate ==
    (Returned /\ ScrubbedClean) =>
        /\ NoHits(run.result.sanitizedHtml)
        /\ NoHits(MapJson(run.result.map))

\* C28: every placeholder of the placeholder map of a run stands in the sanitized HTML
\* of the run, so the length of the map counts the placeholders put into the document.
C28_MapPlaceholdersInDocument ==
    Returned =>
        \A i \in 1..Len(run.result.map) :
            Contains(run.result.sanitizedHtml, run.result.map[i].placeholder)

----------------------------------------------------------------------------
(* Properties of two invocations of runIngest *)

\* how runIngest(in) ends when it runs alone on the destination dest with every write
\* succeeding: where it ends, its error, its placeholder map, the destination as it
\* leaves it, what it put in the raw archive and what it returns
Ended(e, map, dest) ==
    [pc |-> "aborted", err |-> e, map |-> map, fs |-> dest, archived |-> {}, ret |-> <<>>]
PreflightError(in, dest) ==
    IF assertTargetNotExists(dest, sanitizedHtmlPath(in)) # ""
    THEN assertTargetNotExists(dest, sanitizedHtmlPath(in))
    ELSE IF assertTargetNotExists(dest, mapPath(in)) # ""
    THEN assertTargetNotExists(dest, mapPath(in))
    ELSE IF in.debugLedger THEN assertTargetNotExists(dest, ledgerPath(in))
    ELSE ""
AloneWritten(in, dest, file, r, d) ==
    LET withHtml == writeTextFile(dest, sanitizedHtmlPath(in), r.sanitizedHtml, "written")
        withMap == writeTextFile(withHtml, mapPath(in), MapFileText(r.map), "written")
        withLedger ==
            IF in.debugLedger
            THEN writeTextFile(withMap, ledgerPath(in),
                               [policyVersion |-> policyVersion, raw |-> r.rawLedger,
                                sanitized |-> r.sanitizedLedger, diff |-> d], "written")
            ELSE withMap
    IN  [pc |-> "done", err |-> "", map |-> r.map, fs |-> withLedger,
         archived |-> {[fixture |-> in.fixture, content |-> file.text]},
         ret |-> IngestResult(in, r, d)]
AloneSanitized(in, dest, file, r) ==
    IF r.threw THEN Ended(Caught("TypeError"), <<>>, dest)
    ELSE LET d == diffStructureLedger(r.rawLedger, r.sanitizedLedger)
         IN  IF LedgerGate(d) # "" THEN Ended(LedgerGate(d), r.map, dest)
             ELSE IF ~NoHits(r.sanitizedHtml) \/ ~NoHits(MapJson(r.map))
             THEN Ended("E_INGEST_SECRET_PATTERN", r.map, dest)
             ELSE IF PreflightError(in, dest) # ""
             THEN Ended(PreflightError(in, dest), r.map, dest)
             ELSE AloneWritten(in, dest, file, r, d)
Alone(in, dest) ==
    IF ~assertValidSourceUrl(in.sourceUrl) THEN Ended("E_INGEST_INVALID_SOURCE_URL", <<>>, dest)
    ELSE IF ~assertFixtureName(in.fixture) THEN Ended("E_INGEST_SANITIZE_FAILED", <<>>, dest)
    ELSE LET file == readInputHtml(in.htmlPath)
         IN  IF file.error # "" THEN Ended(file.error, <<>>, dest)
             ELSE IF Trim(file.text) = <<>> THEN Ended("E_INGEST_INVALID_HTML", <<>>, dest)
             ELSE AloneSanitized(in, dest, file,
                                 sanitizeHtmlForFixture(file.doc, Chars(in.sourceUrl),
                                                        policyVersion, NewContext))

\* Alone for the calls and the destinations of SpecPar
AloneRuns ==
    {[input |-> in, found |-> dest, ended |-> Alone(in, dest)] :
        in \in ParInputs("post-1") \cup ParInputs("post-2"), dest \in ParDestinations}

\* an invocation that has ended, given by its locals, ended as it does alone on the
\* destination the two invocations found
AsAlone(l) ==
    LET alone == (CHOOSE a \in AloneRuns : a.input = l.input /\ a.found = before.fs).ended
    IN  /\ l.pc = alone.pc /\ l.err = alone.err
        /\ l.ret = alone.ret
        /\ (IF l.san = <<>> THEN <<>> ELSE l.san.map) = alone.map
        /\ \A path \in TrackedPaths(l.input) :
               /\ Exists(fs, path) = Exists(alone.fs, path)
               /\ Exists(fs, path) => fs.files[path] = alone.fs.files[path]
        /\ {a \in rawArchive : a.fixture = l.input.fixture} = alone.archived

\* C19: two runIngest invocations for different fixture names, their steps interleaved
\* in any order, each end with the outcome, the placeholder numbering and the tracked
\* artifacts they end with when they run alone.
C19_Independent ==
    /\ pc \in {"done", "aborted"} => AsAlone(Locals)
    /\ (parked # <<>> /\ parked.pc \in {"done", "aborted"}) => AsAlone(parked)

\* both invocations are done for the same document: each numbered its placeholders from
\* 001 and wrote its own files
C19_Witness ==
    /\ pc = "done" /\ parked # <<>> /\ parked.pc = "done"
    /\ input.fixture # parked.input.fixture
    /\ input.htmlPath = parked.input.htmlPath
    /\ Len(san.map) >= 3 /\ san.map = parked.san.map
    /\ Exists(fs, sanitizedHtmlPath(input)) /\ Exists(fs, sanitizedHtmlPath(parked.input))

\* the two invocations are both between their writes
C19_WitnessInterleaved ==
    /\ parked # <<>>
    /\ pc = "writingMap" /\ parked.pc = "writingHtml"

----------------------------------------------------------------------------
(* Properties of the ledger differ *)

Diffed == ldiff # <<>>
NodeAt(ledger, path) == CHOOSE n \in Range(ledger.nodes) : n.nodePath = path
PathsOf(ledger) == {n.nodePath : n \in Range(ledger.nodes)}
SharedPaths == PathsOf(ledgers.raw) \cap PathsOf(ledgers.sanitized)
Violation(kind, path) ==
    \E v \in Range(ldiff.result.violations) : v.kind = kind /\ v.nodePath = path
AttrViolation(kind, path, attr) ==
    \E v \in Range(ldiff.result.violations) :
        v.kind = kind /\ v.nodePath = path /\ v.attr = attr
\* the class changes the policy lets through
ApprovedChange(from, to) ==
    \/ from = to
    \/ from = "long_numeric_id" /\ to = "plain_text"
    \/ from = "token_like" /\ to = "plain_text"

\* C11: ledger diff transition policy: for every attribute present on a raw node and
\* on the sanitized node at the same nodePath, diffStructureLedger records a violation
\* if and only if the pair (raw class, sanitized class) is none of: identical classes,
\* long_numeric_id to plain_text, token_like to plain_text.
C11_TransitionPolicy ==
    Diffed =>
        \A path \in SharedPaths :
            \A attr \in Range(NodeAt(ledgers.raw, path).attributesPresent)
                         \cap Range(NodeAt(ledgers.sanitized, path).attributesPresent) :
                AttrViolation("value class change not allowed", path, attr)
                    <=> ~ApprovedChange(ClassOfAttr(NodeAt(ledgers.raw, path), attr),
                                        ClassOfAttr(NodeAt(ledgers.sanitized, path), attr))

\* a url attribute found plain_text on the sanitized side was reported, beside a link
\* whose href stayed a url and was not
C11_Witness ==
    /\ Diffed
    /\ \E v \in Range(ldiff.result.violations) :
           v.kind = "value class change not allowed" /\ v.from = "url" /\ v.to = "plain_text"
    /\ LinkNode.nodePath \in SharedPaths
    /\ ~Violation("value class change not allowed", LinkNode.nodePath)

\* C12: ledger diff structure rules: a raw nodePath absent from the sanitized ledger, a
\* tag-name mismatch at a shared nodePath and a raw attribute absent on the sanitized
\* node each give a violation; a nodePath of the sanitized ledger alone gives a warning
\* and no violation; ok is true exactly when there is no violation; runIngest goes on
\* when there are warnings and no violation.
C12_StructureRules ==
    Diffed =>
        /\ \A path \in PathsOf(ledgers.raw) \ PathsOf(ledgers.sanitized) :
               Violation("missing node", path)
        /\ \A path \in SharedPaths :
               /\ NodeAt(ledgers.raw, path).tagName # NodeAt(ledgers.sanitized, path).tagName
                      <=> Violation("tag mismatch", path)
               /\ \A attr \in Range(NodeAt(ledgers.raw, path).attributesPresent) :
                      attr \notin Range(NodeAt(ledgers.sanitized, path).attributesPresent)
                          <=> AttrViolation("missing attribute", path, attr)
        /\ \A path \in PathsOf(ledgers.sanitized) \ PathsOf(ledgers.raw) :
               /\ \E w \in Range(ldiff.result.warnings) : w.nodePath = path
               /\ \A v \in Range(ldiff.result.violations) : v.nodePath # path
        /\ \A w \in Range(ldiff.result.warnings) : w.nodePath \notin PathsOf(ledgers.raw)
        /\ ldiff.result.ok <=> ldiff.result.violations = <<>>
        /\ ldiff.thrown = "" <=> ldiff.result.violations = <<>>

\* a sanitized ledger with a node of its own and nothing else amiss was let through
C12_Witness ==
    /\ Diffed
    /\ ldiff.result.warnings # <<>> /\ ldiff.result.violations = <<>>
    /\ ldiff.result.ok /\ ldiff.thrown = ""

\* the ledger with the text class of its node i set to class
WithTextClass(ledger, i, class) == [ledger EXCEPT !.nodes[i].textClass = class]
\* the ledger with an attribute of the given class added to its node i
WithAttribute(ledger, i, attr, class) ==
    [ledger EXCEPT !.nodes[i].attributesPresent = Append(@, attr),
                   !.nodes[i].attributeValueClass = Append(@, class)]
\* an attribute no raw node of the ledgers under test has
AddedAttr == Chars("data-added")
\* the ledgers that differ from the given one in one text class or in one attribute that
\* sanitization added
LedgerVariants(ledger) ==
    {WithTextClass(ledger, i, class) :
        i \in DOMAIN ledger.nodes, class \in ValueClass \cup {Undefined}}
    \cup {WithAttribute(ledger, i, AddedAttr, class) :
            i \in DOMAIN ledger.nodes, class \in ValueClass}

\* C29: diffStructureLedger looks only at nodePath, tagName and the attributes of the raw
\* nodes: a sanitized ledger that differs from the one under test only in a text class,
\* or only in an attribute the raw node does not have, gives the same ok flag, the same
\* violations and the same warnings
C29_TextClassAndAddedAttributesIgnored ==
    Diffed => \A variant \in LedgerVariants(ledgers.sanitized) :
                  diffStructureLedger(ledgers.raw, variant) = ldiff.result

\* a sanitized ledger was let through, and so is the same ledger with the text of a node
\* it shares with the raw ledger turned from no class into a token, or with an attribute
\* added to that node
C29_Witness ==
    /\ Diffed /\ ldiff.result.ok
    /\ \E i \in DOMAIN ledgers.sanitized.nodes :
           /\ MapHas(LedgerMap(ledgers.raw.nodes), ledgers.sanitized.nodes[i].nodePath)
           /\ MapGet(LedgerMap(ledgers.raw.nodes),
                     ledgers.sanitized.nodes[i].nodePath).textClass = Undefined
           /\ AddedAttr \notin Range(MapGet(LedgerMap(ledgers.raw.nodes),
                                            ledgers.sanitized.nodes[i].nodePath).attributesPresent)
           /\ diffStructureLedger(ledgers.raw,
                                  WithTextClass(ledgers.sanitized, i, "token_like")).ok
           /\ diffStructureLedger(ledgers.raw,
                                  WithAttribute(ledgers.sanitized, i, AddedAttr, "token_like")).ok

----------------------------------------------------------------------------
(* Properties of runCaptureFixture *)

Downloaded == capture.download # <<>>
\* the download is not ok or brought no HTML
DownloadFailed ==
    \/ ~capture.download.ok
    \/ ~capture.download.html.given
    \/ capture.download.html.text = <<>>
RunIngestNotInvoked == pc = "idle" /\ input = <<>> /\ passed = {} /\ NoInvocationState
NothingWritten ==
    /\ ~capture.made /\ capture.dir = <<>>
    /\ wrote = {} /\ rawArchive = {} /\ fs = capture.found

\* C23: when the download fails (not ok or no HTML), runCaptureFixture returns ok=false
\* with reason "fetch failed", runIngest is never invoked, and no output directory, no
\* page.html and no fixture artifact is written
C23_FetchFirst ==
    (Downloaded /\ DownloadFailed) =>
        /\ capture.pc = "returned"
        /\ capture.result = [ok |-> FALSE, reason |-> "fetch failed",
                             fetch |-> [result |-> capture.download]]
        /\ RunIngestNotInvoked
        /\ NothingWritten

\* a download with status 404 and a body ended the invocation with "fetch failed"
C23_Witness ==
    /\ Downloaded /\ ~capture.download.ok /\ capture.download.html.given
    /\ capture.pc = "returned" /\ capture.result.reason = "fetch failed"

\* C24: when the download succeeds and runIngest aborts, runCaptureFixture does not
\* throw: it returns ok=false with reason "ingest failed: <error message>" and the
\* error of runIngest, with fetch.outputDir and fetch.htmlPath set, page.html and
\* meta.json written and kept, and without the ingest field
C24_IngestFailureReturned ==
    /\ pc = "aborted" => capture.pc \in {"ingesting", "returned"}
    /\ (capture.pc = "ingesting" /\ pc = "aborted") => ENABLED CatchIngest
    /\ (capture.pc = "returned" /\ pc = "aborted") =>
           /\ ~capture.result.ok
           /\ capture.result.reason = "ingest failed: " \o err
           /\ capture.result.ingestError = err
           /\ capture.result.fetch.outputDir = outputDir
           /\ capture.result.fetch.htmlPath = pagePath
           /\ "ingest" \notin DOMAIN capture.result
           /\ DOMAIN capture.dir = {pagePath, metaPath}
           /\ capture.dir[pagePath].text = capture.download.html.text

\* runIngest found a secret in the page that was downloaded, and runCaptureFixture
\* returned
C24_Witness ==
    /\ capture.pc = "returned" /\ pc = "aborted" /\ err = "E_INGEST_SECRET_PATTERN"
    /\ capture.result.reason = "ingest failed: E_INGEST_SECRET_PATTERN"

\* the result has a reason that starts with "ingest failed"
IngestFailedReturned ==
    /\ capture.pc = "returned" /\ ~capture.result.ok
    /\ "ingestError" \in DOMAIN capture.result
    /\ capture.result.reason = "ingest failed: " \o capture.result.ingestError

\* C30: whenever runCaptureFixture returns ok=false with a reason starting "ingest
\* failed", that invocation wrote no tracked fixture artifact (<fixture>.html,
\* <fixture>.map.json), also when runIngest succeeded and a copy into the run directory
\* failed
C30_IngestFailedNothingTracked ==
    IngestFailedReturned =>
        /\ wrote \cap {sanitizedHtmlPath(input), mapPath(input)} = {}
        /\ fs = capture.found

----------------------------------------------------------------------------
(* Properties of two invocations of runIngest for one fixture *)

\* nothing stands at the tracked paths of the invocation at its step
TargetsFree ==
    /\ ~fs.denied
    /\ ~Exists(fs, sanitizedHtmlPath(input)) /\ ~Exists(fs, mapPath(input))
    /\ input.debugLedger => ~Exists(fs, ledgerPath(input))
BothDone == pc = "done" /\ parked # <<>> /\ parked.pc = "done"
\* what a done invocation wrote to a tracked path
WrittenBy(l, path) ==
    IF path = sanitizedHtmlPath(l.input) THEN l.san.sanitizedHtml
    ELSE MapFileText(l.san.map)

\* C25: the pre-flight check is no lock between concurrent invocations for one fixture
\* and destination: an invocation passes it whenever the tracked paths are free at that
\* moment, also when the other invocation has passed it and is about to write; when both
\* are done, both returned ok and each tracked file is the one the later writer left
C25_PreflightIsNoLock ==
    /\ (pc = "preflight" /\ TargetsFree) => ENABLED (Preflight /\ pc' = "writingRaw")
    /\ BothDone =>
           /\ ret.ok /\ parked.ret.ok
           /\ \A path \in {sanitizedHtmlPath(input), mapPath(input)} :
                  /\ Exists(fs, path)
                  /\ fs.files[path] \in {WrittenBy(Locals, path), WrittenBy(parked, path)}

\* both invocations passed the check and are done; the HTML one of them wrote is gone,
\* the file holds the HTML of the other
C25_Witness ==
    /\ BothDone
    /\ "preflight" \in passed /\ "preflight" \in parked.passed
    /\ sanitizedHtmlPath(input) \in wrote /\ sanitizedHtmlPath(input) \in parked.wrote
    /\ san.sanitizedHtml # parked.san.sanitizedHtml
    /\ fs.files[sanitizedHtmlPath(input)] = parked.san.sanitizedHtml

\* both invocations have passed the check and neither has written
C25_WitnessBothPassed ==
    /\ parked # <<>>
    /\ pc = "writingRaw" /\ parked.pc = "writingRaw"
    /\ wrote = {} /\ parked.wrote = {} /\ TargetsFree

====
